---- MODULE Spec2Model ----
(***************************************************************************)
(* finance-friend: the relational schema with its row-level security,      *)
(* its audit and closing-balance triggers, and the CSV import dialogs of   *)
(* the transactions page.                                                  *)
(*                                                                         *)
(* Amounts are integers in units of 0.01 (the columns are DECIMAL(15,2)).  *)
(* A uuid is a string; gen_random_uuid() is the first unused id of a pool. *)
(* A request that the database rejects leaves every table as it was.       *)
(* audit_logs has no UPDATE and no DELETE policy and no trigger rewrites   *)
(* it, so a row once appended stays as it is: the model keeps the rows the *)
(* last request appended.                                                  *)
(***************************************************************************)
EXTENDS Integers, Sequences, FiniteSets, TLC

VARIABLES
    accounts,            \* public.accounts
    categories,          \* public.categories
    subcategories,       \* public.subcategories
    tags,                \* public.tags
    transaction_groups,  \* public.transaction_groups
    budgets,             \* public.budgets
    transactions,        \* public.transactions
    audit_logs,          \* the rows the request served last appended to
                         \* public.audit_logs, in insertion order
    row_events,          \* the row-level events the database fired for it, in order
    last_request,        \* the request served last: who asked, what came back
    returned,            \* the rows the last select request returned
    enum_literal,        \* what the database makes of a literal that is not a
                         \* label of the enum it is compared with
    client_requests,     \* the number of requests sent straight to the API
    isOpen,              \* the import dialog: useState of the same names
    parsedData,
    fileName,
    isImporting,
    unmatchedAccounts,
    file,                \* the file in the dialog's file input
    pc,                  \* where handleImport stands
    insert_requests,     \* the bodies of the transactions inserts the dialog has sent
    importCompleted,     \* the number of calls of onImportComplete
    initialAccounts,     \* the accounts the page has fetched and hands to the dialog
    newEntities,         \* the dialog that creates new items: useState newEntities
    existing,            \* its useState accounts, categories, tags and groups
    closure,             \* what the handleImport that runs or ran last sees of them
    request_log,         \* the inserts that dialog has sent, with their answers
    csv                  \* splitCSVRows and parseCSVLine at work on a file's content:
                         \* the loops' variables

dbvars == <<accounts, categories, subcategories, tags, transaction_groups, budgets,
            transactions, audit_logs, row_events, last_request, returned,
            enum_literal, client_requests>>

dialogvars == <<isOpen, parsedData, fileName, isImporting, unmatchedAccounts, file, pc,
                insert_requests, importCompleted, initialAccounts>>

itemvars == <<newEntities, existing, closure, request_log, csv>>

vars == <<dbvars, dialogvars, itemvars>>

-----------------------------------------------------------------------------
(* Bounds *)

MaxAccounts == 2
MaxTransactions == 2
MaxClientRows == 1
MaxRequests == 4
MaxImports == 1

NULL == "NULL"

UserIds == {"userA", "userB"}

\* The user signed in to the pages
PageUsers == {"userA"}

AccountIdPool == <<"acc1", "acc2", "acc3", "acc4", "acc5", "acc6", "acc7", "acc8">>
TransactionIdPool == <<"txn1", "txn2", "txn3", "txn4">>
CategoryIdPool == <<"cat1", "cat2", "cat3", "cat4">>
SubcategoryIdPool == <<"sub1", "sub2", "sub3", "sub4">>
TagIdPool == <<"tag1", "tag2", "tag3", "tag4">>
GroupIdPool == <<"grp1", "grp2", "grp3", "grp4">>
BudgetIdPool == <<"bud1", "bud2", "bud3">>

AccountIds == {AccountIdPool[i] : i \in 1..MaxAccounts}
TransactionIds == {TransactionIdPool[i] : i \in 1..MaxTransactions}

Amounts == {1, 2}
OpeningBalances == {1}

\* CREATE TYPE public.transaction_type AS ENUM ('Debit', 'Credit')
transaction_type == {"Debit", "Credit"}

\* transaction_type = 'credit': PostgreSQL reads the literal as a transaction_type
\* and raises "invalid input value for enum"; a database that compares the
\* column as text finds the two different.  The model admits both.
EnumLiteralOutcomes == {"raises", "text"}

-----------------------------------------------------------------------------
(* Helpers *)

RECURSIVE SumAmount(_)
SumAmount(rows) ==
    IF rows = {} THEN 0
    ELSE LET r == CHOOSE x \in rows : TRUE
         IN r.amount + SumAmount(rows \ {r})

\* gen_random_uuid(): the n first ids of the pool that no row of the table uses
RECURSIVE FreshIds(_, _, _)
FreshIds(pool, used, n) ==
    IF n = 0 \/ pool = <<>> THEN <<>>
    ELSE IF Head(pool) \in used THEN FreshIds(Tail(pool), used, n)
    ELSE <<Head(pool)>> \o FreshIds(Tail(pool), used, n - 1)

Ids(rows) == {r.id : r \in rows}

RowById(rows, id) == CHOOSE r \in rows : r.id = id

SeqToSet(s) == {s[i] : i \in 1..Len(s)}

\* The database as a request finds it, threaded through the statement and its
\* triggers
DB == [accounts |-> accounts, categories |-> categories,
       subcategories |-> subcategories, tags |-> tags,
       transaction_groups |-> transaction_groups, budgets |-> budgets,
       transactions |-> transactions, audit_logs |-> <<>>, row_events |-> <<>>,
       raised |-> FALSE]

RowEvent(db, op, table, id) ==
    [db EXCEPT !.row_events = Append(@, [op |-> op, table |-> table, id |-> id])]


InPoolOrder(pool, ids) == SelectSeq(pool, LAMBDA i : i \in ids)

-----------------------------------------------------------------------------
(* Triggers *)

\* to_jsonb(row), or SQL NULL for a column the INSERT does not name
to_jsonb(row) == {row}
JsonNull == {}

\* audit_trigger_function without its DELETE branch
audit_trigger_function_no_delete(db, uid, TG_OP, TG_TABLE_NAME, OLD_ROW, NEW_ROW) ==
    IF TG_OP = "INSERT" THEN
        [db EXCEPT !.audit_logs = Append(@,
            [user_id |-> uid, action |-> "INSERT", table_name |-> TG_TABLE_NAME,
             record_id |-> NEW_ROW.id, old_data |-> JsonNull, new_data |-> to_jsonb(NEW_ROW)])]
    ELSE IF TG_OP = "UPDATE" THEN
        [db EXCEPT !.audit_logs = Append(@,
            [user_id |-> uid, action |-> "UPDATE", table_name |-> TG_TABLE_NAME,
             record_id |-> NEW_ROW.id, old_data |-> to_jsonb(OLD_ROW), new_data |-> to_jsonb(NEW_ROW)])]
    ELSE db

audit_trigger_function(db, uid, TG_OP, TG_TABLE_NAME, OLD_ROW, NEW_ROW) ==
    IF TG_OP = "INSERT" THEN
        [db EXCEPT !.audit_logs = Append(@,
            [user_id |-> uid, action |-> "INSERT", table_name |-> TG_TABLE_NAME,
             record_id |-> NEW_ROW.id, old_data |-> JsonNull, new_data |-> to_jsonb(NEW_ROW)])]
    ELSE IF TG_OP = "UPDATE" THEN
        [db EXCEPT !.audit_logs = Append(@,
            [user_id |-> uid, action |-> "UPDATE", table_name |-> TG_TABLE_NAME,
             record_id |-> NEW_ROW.id, old_data |-> to_jsonb(OLD_ROW), new_data |-> to_jsonb(NEW_ROW)])]
    ELSE IF TG_OP = "DELETE" THEN
        [db EXCEPT !.audit_logs = Append(@,
            [user_id |-> uid, action |-> "DELETE", table_name |-> TG_TABLE_NAME,
             record_id |-> OLD_ROW.id, old_data |-> to_jsonb(OLD_ROW), new_data |-> JsonNull])]
    ELSE db

\* CREATE TRIGGER audit_accounts AFTER INSERT OR UPDATE OR DELETE ON accounts
audit_accounts(db, uid, e) ==
    audit_trigger_function(db, uid, e.op, "accounts", e.old, e.new)

\* CREATE TRIGGER audit_transactions AFTER INSERT OR UPDATE OR DELETE ON transactions
audit_transactions(db, uid, e) ==
    audit_trigger_function(db, uid, e.op, "transactions", e.old, e.new)

\* CREATE TRIGGER audit_budgets AFTER INSERT OR UPDATE OR DELETE ON budgets
audit_budgets(db, uid, e) ==
    audit_trigger_function(db, uid, e.op, "budgets", e.old, e.new)

\* One row of accounts rewritten by an UPDATE: the row event, then the table's
\* AFTER ROW trigger.  The trigger fires whether or not a value changed.
AccountRowUpdated(db, uid, old, new) ==
    LET db1 == [db EXCEPT !.accounts = (@ \ {old}) \cup {new}]
        db2 == RowEvent(db1, "UPDATE", "accounts", old.id)
    IN audit_accounts(db2, uid, [op |-> "UPDATE", old |-> old, new |-> new])

\* The labels the trigger function compares transaction_type with
CreditLabel == "credit"
DebitLabel == "debit"

\* SELECT COALESCE(a.opening_balance, 0) + credits - debits INTO new_closing_balance
\* FROM accounts a LEFT JOIN transactions t ON t.account_id = a.id WHERE a.id = id
\* GROUP BY a.id, a.opening_balance: one value, or none when no account has the id
new_closing_balance(db, id) ==
    { a.opening_balance
        + SumAmount({t \in db.transactions :
                        t.account_id = a.id /\ t.transaction_type = CreditLabel})
        - SumAmount({t \in db.transactions :
                        t.account_id = a.id /\ t.transaction_type = DebitLabel})
      : a \in {x \in db.accounts : x.id = id} }

\* The SELECT raises when the database rejects one of its literals
SelectRaises ==
    /\ enum_literal = "raises"
    /\ {CreditLabel, DebitLabel} \ transaction_type # {}

\* UPDATE accounts SET closing_balance = COALESCE(new_closing_balance, ...) WHERE id = id
RecalculateAccount(db, uid, id) ==
    IF SelectRaises THEN [db EXCEPT !.raised = TRUE]
    ELSE IF id \notin Ids(db.accounts) THEN db
    ELSE LET old == RowById(db.accounts, id)
             val == CHOOSE v \in new_closing_balance(db, id) : TRUE
         IN AccountRowUpdated(db, uid, old, [old EXCEPT !.closing_balance = val])

update_account_closing_balance(db, uid, TG_OP, OLD_ROW, NEW_ROW) ==
    LET affected_account_id == IF TG_OP = "DELETE" THEN OLD_ROW.account_id
                               ELSE NEW_ROW.account_id
        db1 == RecalculateAccount(db, uid, affected_account_id)
    IN IF TG_OP = "UPDATE" /\ OLD_ROW.account_id # NEW_ROW.account_id
       THEN RecalculateAccount(db1, uid, OLD_ROW.account_id)
       ELSE db1

\* CREATE TRIGGER update_closing_balance_trigger AFTER INSERT OR UPDATE OR DELETE
\* ON transactions FOR EACH ROW
update_closing_balance_trigger(db, uid, e) ==
    update_account_closing_balance(db, uid, e.op, e.old, e.new)

\* The AFTER ROW triggers of transactions for one row event, in name order
AfterRowTransactions(db, uid, e) ==
    update_closing_balance_trigger(audit_transactions(db, uid, e), uid, e)

\* The AFTER ROW triggers of a table for one row event
AfterRow(db, uid, table, e) ==
    CASE table = "transactions" -> AfterRowTransactions(db, uid, e)
      [] table = "accounts" -> audit_accounts(db, uid, e)
      [] table = "budgets" -> audit_budgets(db, uid, e)
      [] OTHER -> db

\* The AFTER ROW triggers of a statement fire once the statement has changed all
\* its rows, row by row
RECURSIVE FireTriggers(_, _, _, _)
FireTriggers(db, uid, table, events) ==
    IF events = <<>> THEN db
    ELSE FireTriggers(AfterRow(db, uid, table, Head(events)), uid, table, Tail(events))

RECURSIVE RecordEvents(_, _, _)
RecordEvents(db, table, events) ==
    IF events = <<>> THEN db
    ELSE RecordEvents(RowEvent(db, Head(events).op, table,
                               IF Head(events).op = "DELETE" THEN Head(events).old.id
                               ELSE Head(events).new.id),
                      table, Tail(events))

\* A statement has changed rows of a table: the rows, then the triggers
RowsChanged(db, uid, table, removed, added, events) ==
    LET db1 == [db EXCEPT ![table] = (@ \ removed) \cup added]
    IN FireTriggers(RecordEvents(db1, table, events), uid, table, events)

\* transactions.<column> UUID REFERENCES ... ON DELETE SET NULL
SetNullOnDelete(db, uid, column, deleted) ==
    LET ids == InPoolOrder(TransactionIdPool,
                           {t.id : t \in {x \in db.transactions : x[column] \in deleted}})
        events == [i \in 1..Len(ids) |->
                     [op |-> "UPDATE", old |-> RowById(db.transactions, ids[i]),
                      new |-> [RowById(db.transactions, ids[i]) EXCEPT ![column] = NULL]]]
    IN RowsChanged(db, uid, "transactions", {events[i].old : i \in 1..Len(events)},
                   {events[i].new : i \in 1..Len(events)}, events)

\* budgets.category_id UUID REFERENCES public.categories(id) ON DELETE CASCADE
CascadeBudgets(db, uid, deleted) ==
    LET ids == InPoolOrder(BudgetIdPool,
                           {b.id : b \in {x \in db.budgets : x.category_id \in deleted}})
        events == [i \in 1..Len(ids) |->
                     [op |-> "DELETE", old |-> RowById(db.budgets, ids[i]),
                      new |-> RowById(db.budgets, ids[i])]]
    IN RowsChanged(db, uid, "budgets", {events[i].old : i \in 1..Len(events)}, {}, events)

\* subcategories.category_id UUID REFERENCES public.categories(id) ON DELETE CASCADE;
\* each subcategory deleted sets transactions.subcategory_id to null
CascadeSubcategories(db, uid, deleted) ==
    LET ids == InPoolOrder(SubcategoryIdPool,
                           {x.id : x \in {y \in db.subcategories : y.category_id \in deleted}})
        events == [i \in 1..Len(ids) |->
                     [op |-> "DELETE", old |-> RowById(db.subcategories, ids[i]),
                      new |-> RowById(db.subcategories, ids[i])]]
        db1 == RowsChanged(db, uid, "subcategories", {events[i].old : i \in 1..Len(events)},
                           {}, events)
    IN SetNullOnDelete(db1, uid, "subcategory_id", SeqToSet(ids))

\* A database whose foreign keys have no referential action
OnDeleteNoAction(db, uid, table, deleted) == db

\* The referential actions for the deleted rows of a table, in the order in which
\* the referencing constraints were created
OnDelete(db, uid, table, deleted) ==
    CASE table = "accounts" -> SetNullOnDelete(db, uid, "account_id", deleted)
      [] table = "tags" -> SetNullOnDelete(db, uid, "tag_id", deleted)
      [] table = "transaction_groups" -> SetNullOnDelete(db, uid, "group_id", deleted)
      [] table = "subcategories" -> SetNullOnDelete(db, uid, "subcategory_id", deleted)
      [] table = "categories" ->
            CascadeBudgets(
                SetNullOnDelete(CascadeSubcategories(db, uid, deleted), uid, "category_id",
                                deleted),
                uid, deleted)
      [] OTHER -> db

\* For each deleted row the referential action (RI_ConstraintTrigger_...), then the
\* table's own AFTER ROW triggers
RECURSIVE FireDeleteTriggers(_, _, _, _)
FireDeleteTriggers(db, uid, table, events) ==
    IF events = <<>> THEN db
    ELSE FireDeleteTriggers(
             AfterRow(OnDelete(db, uid, table, {Head(events).old.id}), uid, table,
                      Head(events)),
             uid, table, Tail(events))

-----------------------------------------------------------------------------
(* Row-level security and the statements a client can send *)

\* USING / WITH CHECK (auth.uid() = user_id); auth.uid() is NULL without a session
OwnRow(uid, row) == uid # NULL /\ uid = row.user_id

\* "Users can view system and own categories", as the first policy of the name was
\* created: USING (is_system = true OR auth.uid() = user_id)
CategoriesSelectWithoutSession(uid, row) ==
    row.is_system = TRUE \/ (uid # NULL /\ uid = row.user_id)

\* "Users can view system and own categories", dropped and created again: USING
\* (auth.uid() IS NOT NULL AND (is_system = true OR auth.uid() = user_id))
CategoriesSelect(uid, row) ==
    uid # NULL /\ (row.is_system = TRUE \/ uid = row.user_id)

\* The rows of categories that a query inside a policy finds: the caller's
\* select policy on categories applies to it
VisibleCategories(db, uid) == {c \in db.categories : CategoriesSelect(uid, c)}

\* EXISTS (SELECT 1 FROM categories WHERE id = subcategories.category_id
\*         AND user_id = auth.uid())
OfOwnCategory(db, uid, row) ==
    \E c \in VisibleCategories(db, uid) :
        c.id = row.category_id /\ uid # NULL /\ c.user_id = uid

\* "Users can view subcategories of visible categories": EXISTS (SELECT 1 FROM
\* categories WHERE id = subcategories.category_id
\*                  AND (is_system = true OR user_id = auth.uid()))
OfVisibleCategory(db, uid, row) ==
    \E c \in VisibleCategories(db, uid) :
        c.id = row.category_id /\ (c.is_system = TRUE \/ (uid # NULL /\ c.user_id = uid))

\* The SELECT policies of subcategories once all migrations have run.  DROP
\* POLICY IF EXISTS "Users can view subcategories of own categories" finds no
\* policy of that name and drops none; the policy of that name is then created
\* beside "Users can view subcategories of visible categories", and a row that
\* one permissive policy admits is admitted.
SubcategoriesSelect(db, uid, row) ==
    OfVisibleCategory(db, uid, row) \/ OfOwnCategory(db, uid, row)

\* The expression of the INSERT, UPDATE and DELETE policies of a table
PolicyAdmits(db, table, uid, row) ==
    CASE table = "categories" -> OwnRow(uid, row) /\ row.is_system = FALSE
      [] table = "subcategories" -> OfOwnCategory(db, uid, row)
      [] OTHER -> OwnRow(uid, row)

\* The SELECT policies with the policy of categories as it was first created
SelectPolicyAdmitsWithoutSession(db, table, uid, row) ==
    CASE table = "categories" -> CategoriesSelectWithoutSession(uid, row)
      [] table = "subcategories" -> SubcategoriesSelect(db, uid, row)
      [] OTHER -> OwnRow(uid, row)

\* The expression of the SELECT policies of a table
SelectPolicyAdmits(db, table, uid, row) ==
    CASE table = "categories" -> CategoriesSelect(uid, row)
      [] table = "subcategories" -> SubcategoriesSelect(db, uid, row)
      [] OTHER -> OwnRow(uid, row)

IdPool(table) ==
    CASE table = "accounts" -> AccountIdPool
      [] table = "categories" -> CategoryIdPool
      [] table = "subcategories" -> SubcategoryIdPool
      [] table = "tags" -> TagIdPool
      [] table = "transaction_groups" -> GroupIdPool
      [] table = "budgets" -> BudgetIdPool
      [] table = "transactions" -> TransactionIdPool

\* The foreign keys of a transactions row
ReferencesExist(db, row) ==
    /\ row.account_id = NULL \/ row.account_id \in Ids(db.accounts)
    /\ row.category_id = NULL \/ row.category_id \in Ids(db.categories)
    /\ row.subcategory_id = NULL \/ row.subcategory_id \in Ids(db.subcategories)
    /\ row.tag_id = NULL \/ row.tag_id \in Ids(db.tags)
    /\ row.group_id = NULL \/ row.group_id \in Ids(db.transaction_groups)

\* tags: UNIQUE(user_id, name)
UniqueTags(db) ==
    \A r1, r2 \in db.tags :
        (r1.user_id = r2.user_id /\ r1.name = r2.name) => r1.id = r2.id

\* budgets: UNIQUE(user_id, category_id, month, year)
UniqueBudgets(db) ==
    \A r1, r2 \in db.budgets :
        (r1.user_id = r2.user_id /\ r1.category_id = r2.category_id
            /\ r1.month = r2.month /\ r1.year = r2.year) => r1.id = r2.id

ConstraintsHold(db) ==
    /\ UniqueTags(db)
    /\ UniqueBudgets(db)
    /\ \A t \in db.transactions : ReferencesExist(db, t)
    /\ \A b \in db.budgets : b.category_id \in Ids(db.categories)
    /\ \A x \in db.subcategories : x.category_id \in Ids(db.categories)

Ok(db, data) == [error |-> FALSE, db |-> db, data |-> data]
Rejected(db) == [error |-> TRUE, db |-> db, data |-> <<>>]

\* The statement that found the database as db has run with its triggers: an
\* exception raised in a trigger undoes it
Done(db, after, data) == IF after.raised THEN Rejected(db) ELSE Ok(after, data)

\* The row with the columns of patch replaced
Patched(row, patch) ==
    [f \in DOMAIN row |-> IF f \in DOMAIN patch THEN patch[f] ELSE row[f]]

InsertEvents(new) == [i \in 1..Len(new) |-> [op |-> "INSERT", old |-> new[i], new |-> new[i]]]

\* supabase.from(table).insert(rows)
Insert(db, uid, table, rows) ==
    LET ids == FreshIds(IdPool(table), Ids(db[table]), Len(rows))
        new == [i \in 1..Len(rows) |-> ("id" :> ids[i]) @@ rows[i]]
        events == InsertEvents(new)
        db1 == [db EXCEPT ![table] = @ \cup SeqToSet(new)]
    IN IF \E i \in 1..Len(rows) : ~PolicyAdmits(db, table, uid, rows[i]) THEN Rejected(db)
       ELSE IF ~ConstraintsHold(db1) THEN Rejected(db)
       ELSE Done(db, FireTriggers(RecordEvents(db1, table, events), uid, table, events),
                 new)

\* supabase.from(table).update(patch).eq('id', id)
Update(db, uid, table, id, patch) ==
    LET order == InPoolOrder(IdPool(table),
                             Ids({r \in db[table] : r.id = id /\ PolicyAdmits(db, table, uid, r)}))
        events == [i \in 1..Len(order) |->
                     [op |-> "UPDATE", old |-> RowById(db[table], order[i]),
                      new |-> Patched(RowById(db[table], order[i]), patch)]]
        db1 == [db EXCEPT ![table] = (@ \ {events[i].old : i \in 1..Len(events)})
                                         \cup {events[i].new : i \in 1..Len(events)}]
    IN IF \E i \in 1..Len(events) : ~PolicyAdmits(db, table, uid, events[i].new)
       THEN Rejected(db)
       ELSE IF ~ConstraintsHold(db1) THEN Rejected(db)
       ELSE Done(db, FireTriggers(RecordEvents(db1, table, events), uid, table, events),
                 <<>>)

\* supabase.from(table).delete() with a filter that the rows of matching pass
Delete(db, uid, table, matching) ==
    LET order == InPoolOrder(IdPool(table),
                             Ids({r \in matching : PolicyAdmits(db, table, uid, r)}))
        events == [i \in 1..Len(order) |->
                     [op |-> "DELETE", old |-> RowById(db[table], order[i]),
                      new |-> RowById(db[table], order[i])]]
        db1 == [db EXCEPT ![table] = @ \ {events[i].old : i \in 1..Len(events)}]
    IN Done(db, FireDeleteTriggers(RecordEvents(db1, table, events), uid, table, events),
            <<>>)

InsertAccounts(db, uid, rows) == Insert(db, uid, "accounts", rows)

DeleteAccount(db, uid, id) ==
    Delete(db, uid, "accounts", {a \in db.accounts : a.id = id})

InsertTransactions(db, uid, rows) == Insert(db, uid, "transactions", rows)

UpdateTransaction(db, uid, id, patch) == Update(db, uid, "transactions", id, patch)

DeleteTransactions(db, uid, matching) == Delete(db, uid, "transactions", matching)

\* The tables after a request that the database answered with result
Commit(uid, kind, table, result) ==
    /\ accounts' = result.db.accounts
    /\ categories' = result.db.categories
    /\ subcategories' = result.db.subcategories
    /\ tags' = result.db.tags
    /\ transaction_groups' = result.db.transaction_groups
    /\ budgets' = result.db.budgets
    /\ transactions' = result.db.transactions
    /\ audit_logs' = result.db.audit_logs
    /\ row_events' = result.db.row_events
    /\ last_request' = [uid |-> uid, kind |-> kind, table |-> table,
                        error |-> result.error]
    /\ returned' = {}
    /\ UNCHANGED enum_literal

-----------------------------------------------------------------------------
(* The pages: account form, account import, transaction form, detail sheet *)

AccountName == <<"H">>

NewAccount(uid, name, opening, closing) ==
    [user_id |-> uid, name |-> name, opening_balance |-> opening,
     closing_balance |-> closing]

NewTransaction(uid, date, amount, type, account_id) ==
    [user_id |-> uid, transaction_date |-> date, amount |-> amount,
     transaction_type |-> type, account_id |-> account_id, category_id |-> NULL,
     subcategory_id |-> NULL, tag_id |-> NULL, group_id |-> NULL]

SomeDate == <<"2", "0", "2", "4", "-", "0", "1", "-", "1", "5">>

OwnAccounts(uid) == {a \in accounts : a.user_id = uid}
OwnTransactions(uid) == {t \in transactions : t.user_id = uid}

\* Accounts.handleSubmit
AccountsHandleSubmit(uid, opening) ==
    /\ Cardinality(accounts) < MaxAccounts
    /\ Commit(uid, "insert", "accounts",
              InsertAccounts(DB, uid, <<NewAccount(uid, AccountName, opening, opening)>>))

\* AccountCSVImportDialog.handleImport with these valid accounts
AccountCSVHandleImport(uid, openings) ==
    /\ Len(openings) > 0
    /\ Cardinality(accounts) + Len(openings) <= MaxAccounts
    /\ Commit(uid, "insert", "accounts",
              InsertAccounts(DB, uid,
                  [i \in 1..Len(openings) |->
                      NewAccount(uid, AccountName, openings[i], openings[i])]))

\* Accounts.handleDelete
AccountsHandleDelete(uid, id) ==
    /\ id \in Ids(OwnAccounts(uid))
    /\ Commit(uid, "delete", "accounts", DeleteAccount(DB, uid, id))

\* Transactions.handleSubmit
TransactionsHandleSubmit(uid, amount, type, account_id) ==
    /\ Cardinality(transactions) < MaxTransactions
    /\ account_id \in Ids(OwnAccounts(uid))
    /\ Commit(uid, "insert", "transactions",
              InsertTransactions(DB, uid,
                  <<NewTransaction(uid, SomeDate, amount, type, account_id)>>))

\* The insert request of CSVImportDialog.handleImport with these valid rows
TransactionsBulkInsert(uid, rows) ==
    /\ Len(rows) > 0
    /\ Cardinality(transactions) + Len(rows) <= MaxTransactions
    /\ \A i \in 1..Len(rows) : rows[i].account_id \in Ids(OwnAccounts(uid)) \cup {NULL}
    /\ Commit(uid, "insert", "transactions",
              InsertTransactions(DB, uid,
                  [i \in 1..Len(rows) |->
                      NewTransaction(uid, SomeDate, rows[i].amount,
                                     rows[i].transaction_type, rows[i].account_id)]))

\* TransactionDetailSheet.handleSave
DetailSheetHandleSave(uid, id, amount, type, account_id) ==
    /\ id \in Ids(OwnTransactions(uid))
    /\ account_id \in Ids(OwnAccounts(uid)) \cup {NULL}
    /\ Commit(uid, "update", "transactions",
              UpdateTransaction(DB, uid, id,
                  [transaction_date |-> SomeDate, amount |-> amount,
                   transaction_type |-> type, account_id |-> account_id]))

\* TransactionDetailSheet.handleDelete
DetailSheetHandleDelete(uid, id) ==
    /\ id \in Ids(OwnTransactions(uid))
    /\ Commit(uid, "delete", "transactions",
              DeleteTransactions(DB, uid, {t \in transactions : t.id = id}))

\* Transactions.handleDeleteAllTransactions (Clear All)
HandleDeleteAllTransactions(uid) ==
    /\ OwnTransactions(uid) # {}
    /\ Commit(uid, "delete", "transactions",
              DeleteTransactions(DB, uid, {t \in transactions : t.user_id = uid}))

\* The files imported: two rows for one account (or for none)
BulkRows ==
    {<<[amount |-> 1, transaction_type |-> t1, account_id |-> a],
       [amount |-> 2, transaction_type |-> t2, account_id |-> a]>> :
        t1 \in transaction_type, t2 \in transaction_type, a \in AccountIds \cup {NULL}}

OpeningLists == [1..2 -> OpeningBalances]

\* No request has been served
InitRequests ==
    /\ audit_logs = <<>>
    /\ row_events = <<>>
    /\ last_request = [uid |-> NULL, kind |-> "none", table |-> "none",
                       error |-> FALSE]
    /\ returned = {}
    /\ enum_literal \in EnumLiteralOutcomes
    /\ client_requests = 0

\* The tables but accounts are empty
InitDB ==
    /\ categories = {}
    /\ subcategories = {}
    /\ tags = {}
    /\ transaction_groups = {}
    /\ budgets = {}
    /\ transactions = {}
    /\ InitRequests

\* The dialog as useState leaves it
DialogClosed ==
    /\ isOpen = FALSE
    /\ parsedData = <<>>
    /\ fileName = ""
    /\ isImporting = FALSE
    /\ unmatchedAccounts = <<>>
    /\ file = [name |-> "", headers |-> <<>>, rows |-> <<>>]
    /\ pc = "idle"
    /\ insert_requests = <<>>
    /\ importCompleted = 0

\* The dialog that creates new items as useState leaves it, given no entities
\* No file is being read
NoCSV ==
    [phase |-> "idle", content |-> <<>>, i |-> 0, currentRow |-> <<>>, inQuotes |-> FALSE,
     rows |-> <<>>, line |-> <<>>, result |-> <<>>, current |-> <<>>]

NoItems ==
    /\ csv = NoCSV
    /\ newEntities = <<>>
    /\ existing = [accounts |-> <<>>, categories |-> <<>>, tags |-> <<>>, groups |-> <<>>]
    /\ closure = [import |-> 0, parsedData |-> <<>>, newEntities |-> <<>>,
                  existing |-> existing]
    /\ request_log = <<>>

Init ==
    /\ accounts = {}
    /\ InitDB
    /\ DialogClosed
    /\ initialAccounts = <<>>
    /\ NoItems

Next ==
    /\ \E uid \in PageUsers :
          \/ \E opening \in OpeningBalances : AccountsHandleSubmit(uid, opening)
          \/ \E openings \in OpeningLists : AccountCSVHandleImport(uid, openings)
          \/ \E id \in AccountIds : AccountsHandleDelete(uid, id)
          \/ \E amount \in Amounts, type \in transaction_type, id \in AccountIds :
                 TransactionsHandleSubmit(uid, amount, type, id)
          \/ \E rows \in BulkRows : TransactionsBulkInsert(uid, rows)
          \/ \E id \in TransactionIds, amount \in Amounts, type \in transaction_type,
                account_id \in AccountIds \cup {NULL} :
                 DetailSheetHandleSave(uid, id, amount, type, account_id)
          \/ \E id \in TransactionIds : DetailSheetHandleDelete(uid, id)
          \/ HandleDeleteAllTransactions(uid)
    /\ UNCHANGED <<client_requests, dialogvars, itemvars>>

Spec == Init /\ [][Next]_vars

-----------------------------------------------------------------------------
(* Any signed-in client: the requests the API takes for the tables *)

TableNames == {"accounts", "categories", "subcategories", "tags", "transaction_groups",
               "budgets", "transactions"}

\* auth.uid() of a request: a user's id, or NULL when there is no session
Callers == UserIds \cup {NULL}

TagName == <<"T">>
GroupName == <<"G">>
CategoryName == <<"C">>

NewTag(uid, name) == [user_id |-> uid, name |-> name]
NewGroup(uid, name) == [user_id |-> uid, name |-> name]
NewCategory(uid, name) == [user_id |-> uid, name |-> name, is_system |-> FALSE]
NewSubcategory(category_id, name) == [category_id |-> category_id, name |-> name]

\* INSERT INTO public.categories (name, icon, color, is_system) VALUES (..., true):
\* the default system categories, one of them here; they have no user_id
SystemCategoryName == <<"F", "o", "o", "d">>
SystemCategories ==
    {[id |-> CategoryIdPool[1], user_id |-> NULL, name |-> SystemCategoryName,
      is_system |-> TRUE]}

\* The subcategories of system categories, written with the service role: none,
\* or one
SystemSubcategories ==
    {{}, {("id" :> SubcategoryIdPool[1]) @@ NewSubcategory(CategoryIdPool[1], <<"S">>)}}

CategoryIds == {CategoryIdPool[i] : i \in 1..2}
SubcategoryIds == {SubcategoryIdPool[i] : i \in 1..2}
NewBudget(uid, category_id, amount) ==
    [user_id |-> uid, category_id |-> category_id, amount |-> amount,
     month |-> 1, year |-> 2026]

\* The rows of transactions a client sends: at most one reference each
ClientReferences ==
    {[account_id |-> a, category_id |-> NULL, subcategory_id |-> NULL, tag_id |-> NULL,
      group_id |-> NULL] : a \in AccountIds \cup {NULL}}
    \cup {[account_id |-> NULL, category_id |-> c, subcategory_id |-> NULL,
           tag_id |-> NULL, group_id |-> NULL] : c \in CategoryIds}
    \cup {[account_id |-> NULL, category_id |-> NULL, subcategory_id |-> x,
           tag_id |-> NULL, group_id |-> NULL] : x \in SubcategoryIds}
    \cup {[account_id |-> NULL, category_id |-> NULL, subcategory_id |-> NULL,
           tag_id |-> TagIdPool[1], group_id |-> NULL],
          [account_id |-> NULL, category_id |-> NULL, subcategory_id |-> NULL,
           tag_id |-> NULL, group_id |-> GroupIdPool[1]]}

\* The rows a client can send for a table; user_id is any user's
ClientRows(table) ==
    CASE table = "accounts" ->
            {NewAccount(u, AccountName, o, c) :
                u \in UserIds, o \in OpeningBalances, c \in Amounts}
      [] table = "categories" ->
            {[NewCategory(u, CategoryName) EXCEPT !.is_system = x] :
                u \in Callers, x \in BOOLEAN}
      [] table = "subcategories" -> {NewSubcategory(c, <<"S">>) : c \in CategoryIds}
      [] table = "tags" -> {NewTag(u, TagName) : u \in UserIds}
      [] table = "transaction_groups" -> {NewGroup(u, GroupName) : u \in UserIds}
      [] table = "budgets" -> {NewBudget(u, c, 1) : u \in UserIds, c \in CategoryIds}
      [] table = "transactions" ->
            {Patched(NewTransaction(u, SomeDate, 1, "Credit", NULL), r) :
                u \in UserIds, r \in ClientReferences}

\* The columns a client rewrites
ClientPatches(table) ==
    (IF table = "subcategories" THEN {[category_id |-> c] : c \in CategoryIds}
     ELSE {[user_id |-> u] : u \in UserIds})
    \cup (CASE table = "accounts" -> {[closing_balance |-> c] : c \in Amounts}
            [] table = "categories" -> {[is_system |-> TRUE], [name |-> <<"N">>]}
            [] table = "transactions" -> {[account_id |-> a] : a \in AccountIds \cup {NULL}}
            [] table = "budgets" -> {[amount |-> 2]}
            [] OTHER -> {})

\* The rows a table can come to hold: those of the clients and the system's
MaxRows(table) ==
    CASE table = "accounts" -> MaxAccounts
      [] table \in {"categories", "subcategories"} -> MaxClientRows + 1
      [] OTHER -> MaxClientRows

ClientIds(table) == {IdPool(table)[i] : i \in 1..MaxRows(table)}

Table(table) == DB[table]

\* supabase.from(table).select('*')
ClientSelect(uid, table) ==
    /\ returned' = {r \in Table(table) : SelectPolicyAdmits(DB, table, uid, r)}
    /\ last_request' = [uid |-> uid, kind |-> "select", table |-> table, error |-> FALSE]
    /\ audit_logs' = <<>>
    /\ row_events' = <<>>
    /\ UNCHANGED <<accounts, categories, subcategories, tags, transaction_groups,
                   budgets, transactions, enum_literal>>

ClientInsert(uid, table, row) ==
    /\ Cardinality(Table(table)) < MaxRows(table)
    /\ Commit(uid, "insert", table, Insert(DB, uid, table, <<row>>))

ClientUpdate(uid, table, id, patch) ==
    /\ id \in Ids(Table(table))
    /\ Commit(uid, "update", table, Update(DB, uid, table, id, patch))

ClientDelete(uid, table, id) ==
    /\ id \in Ids(Table(table))
    /\ Commit(uid, "delete", table, Delete(DB, uid, table, {r \in Table(table) : r.id = id}))

\* The audit rows a client can send: a change that never happened
ClientAuditRows ==
    {[user_id |-> u, action |-> "DELETE", table_name |-> "accounts",
      record_id |-> AccountIdPool[1], old_data |-> JsonNull, new_data |-> JsonNull] :
        u \in UserIds}

\* CREATE POLICY "System can insert audit logs" ON audit_logs
\*     FOR INSERT WITH CHECK (auth.uid() = user_id)
AuditInsertPolicyAdmits(uid, row) == uid = row.user_id

\* supabase.from('audit_logs').insert(row): audit_logs has no trigger
ClientInsertAuditLog(uid, row) ==
    /\ audit_logs' = IF AuditInsertPolicyAdmits(uid, row) THEN <<row>> ELSE <<>>
    /\ row_events' = <<>>
    /\ last_request' = [uid |-> uid, kind |-> "insert", table |-> "audit_logs",
                        error |-> ~AuditInsertPolicyAdmits(uid, row)]
    /\ returned' = {}
    /\ UNCHANGED <<accounts, categories, subcategories, tags, transaction_groups,
                   budgets, transactions, enum_literal>>

NextRLS ==
    /\ client_requests < MaxRequests
    /\ client_requests' = client_requests + 1
    /\ \E uid \in Callers :
          \/ \E table \in TableNames :
                 \/ ClientSelect(uid, table)
                 \/ \E row \in ClientRows(table) : ClientInsert(uid, table, row)
                 \/ \E id \in ClientIds(table), patch \in ClientPatches(table) :
                        ClientUpdate(uid, table, id, patch)
                 \/ \E id \in ClientIds(table) : ClientDelete(uid, table, id)
          \/ \E row \in ClientAuditRows : ClientInsertAuditLog(uid, row)
    /\ UNCHANGED <<dialogvars, itemvars>>

\* The database after the migrations, before any client has sent a request
InitRLS ==
    /\ accounts = {}
    /\ categories = SystemCategories
    /\ subcategories \in SystemSubcategories
    /\ tags = {}
    /\ transaction_groups = {}
    /\ budgets = {}
    /\ transactions = {}
    /\ InitRequests
    /\ DialogClosed
    /\ NoItems
    /\ initialAccounts = <<>>

SpecRLS == InitRLS /\ [][NextRLS]_vars

-----------------------------------------------------------------------------
(* Text: a string is the sequence of its characters *)

Whitespace == {" ", "\t", "\n", "\r"}

DigitChars == <<"0", "1", "2", "3", "4", "5", "6", "7", "8", "9">>
Digits == SeqToSet(DigitChars)
DigitValue(c) == (CHOOSE k \in 1..10 : DigitChars[k] = c) - 1

UpperCase == <<"A", "B", "C", "D", "E", "F", "G", "H", "I", "J", "K", "L", "M",
               "N", "O", "P", "Q", "R", "S", "T", "U", "V", "W", "X", "Y", "Z">>
LowerCase == <<"a", "b", "c", "d", "e", "f", "g", "h", "i", "j", "k", "l", "m",
               "n", "o", "p", "q", "r", "s", "t", "u", "v", "w", "x", "y", "z">>

\* The value of a property that is not there
undefined == <<"undefined">>

\* JavaScript truthiness of a string or undefined
Truthy(v) == v # undefined /\ v # <<>>

Drop(s, n) == SubSeq(s, n + 1, Len(s))

StartsWith(s, prefix) ==
    Len(s) >= Len(prefix) /\ SubSeq(s, 1, Len(prefix)) = prefix

\* String.prototype.toLowerCase
toLowerCase(s) ==
    [i \in 1..Len(s) |->
        IF \E k \in 1..26 : UpperCase[k] = s[i]
        THEN LowerCase[CHOOSE k \in 1..26 : UpperCase[k] = s[i]]
        ELSE s[i]]

RECURSIVE trimStart(_)
trimStart(s) ==
    IF s # <<>> /\ Head(s) \in Whitespace THEN trimStart(Tail(s)) ELSE s

RECURSIVE trimEnd(_)
trimEnd(s) ==
    IF s # <<>> /\ s[Len(s)] \in Whitespace THEN trimEnd(SubSeq(s, 1, Len(s) - 1)) ELSE s

\* String.prototype.trim
trim(s) == trimEnd(trimStart(s))

\* s.replace(/,/g, '') and the like: s without the characters of chars
Without(s, chars) == SelectSeq(s, LAMBDA c : c \notin chars)

\* The leading decimal digits of s
RECURSIVE DigitPrefix(_)
DigitPrefix(s) ==
    IF s # <<>> /\ Head(s) \in Digits THEN <<Head(s)>> \o DigitPrefix(Tail(s)) ELSE <<>>

RECURSIVE DigitsValue(_)
DigitsValue(ds) ==
    IF ds = <<>> THEN 0
    ELSE 10 * DigitsValue(SubSeq(ds, 1, Len(ds) - 1)) + DigitValue(ds[Len(ds)])

\* A number: NaN, an infinity, or mantissa * 10^exponent with a mantissa that does
\* not end in 0
NaN == [nan |-> TRUE, inf |-> FALSE, neg |-> FALSE, m |-> 0, e |-> 0]
Infinity(neg) == [nan |-> FALSE, inf |-> TRUE, neg |-> neg, m |-> 0, e |-> 0]

RECURSIVE Decimal(_, _, _)
Decimal(neg, m, e) ==
    IF m = 0 THEN [nan |-> FALSE, inf |-> FALSE, neg |-> neg, m |-> 0, e |-> 0]
    ELSE IF m % 10 = 0 THEN Decimal(neg, m \div 10, e + 1)
    ELSE [nan |-> FALSE, inf |-> FALSE, neg |-> neg, m |-> m, e |-> e]

Zero == Decimal(FALSE, 0, 0)

isNaN(n) == n.nan

\* x || 0 for a number x
OrZero(n) == IF n.nan \/ (~n.inf /\ n.m = 0) THEN Zero ELSE n

\* parseFloat: leading white space is skipped, then the longest prefix that is a
\* decimal literal is read ([+-], Infinity or digits with a fraction and an
\* exponent); what follows the prefix is ignored
parseFloat(string) ==
    LET t == trimStart(string)
        neg == t # <<>> /\ Head(t) = "-"
        u == IF t # <<>> /\ Head(t) \in {"+", "-"} THEN Tail(t) ELSE t
        int == DigitPrefix(u)
        afterInt == Drop(u, Len(int))
        hasDot == afterInt # <<>> /\ Head(afterInt) = "."
        frac == IF hasDot THEN DigitPrefix(Tail(afterInt)) ELSE <<>>
        afterFrac == IF hasDot THEN Drop(afterInt, 1 + Len(frac)) ELSE afterInt
        hasE == afterFrac # <<>> /\ Head(afterFrac) \in {"e", "E"}
        afterE == IF hasE THEN Tail(afterFrac) ELSE <<>>
        expNeg == afterE # <<>> /\ Head(afterE) = "-"
        expDigits == DigitPrefix(IF afterE # <<>> /\ Head(afterE) \in {"+", "-"}
                                 THEN Tail(afterE) ELSE afterE)
        exp == IF expNeg THEN 0 - DigitsValue(expDigits) ELSE DigitsValue(expDigits)
    IN IF StartsWith(u, <<"I", "n", "f", "i", "n", "i", "t", "y">>) THEN Infinity(neg)
       ELSE IF int = <<>> /\ frac = <<>> THEN NaN
       ELSE Decimal(neg, DigitsValue(int \o frac), exp - Len(frac))

\* /^\d{4}-\d{2}-\d{2}$/.test(s)
dateRegex(s) ==
    /\ Len(s) = 10
    /\ \A i \in {1, 2, 3, 4, 6, 7, 9, 10} : s[i] \in Digits
    /\ s[5] = "-" /\ s[8] = "-"

-----------------------------------------------------------------------------
(* The transaction import dialog: reading the file *)

\* Header mapping from the user's CSV format to the internal format
HEADER_MAP == <<
    <<<<"t", "x", "n", "i", "d">>, <<"t", "x", "n", "_", "i", "d">>>>,
    <<<<"t", "x", "n", "d", "a", "t", "e">>, <<"t", "r", "a", "n", "s", "a", "c", "t", "i", "o", "n", "_", "d", "a", "t", "e">>>>,
    <<<<"t", "x", "n", "d", "a", "y">>, <<"d", "a", "y">>>>,
    <<<<"b", "a", "n", "k", "r", "e", "m", "a", "r", "k", "s">>, <<"b", "a", "n", "k", "_", "r", "e", "m", "a", "r", "k", "s">>>>,
    <<<<"a", "m", "o", "u", "n", "t">>, <<"a", "m", "o", "u", "n", "t">>>>,
    <<<<"c", "u", "r", "r", "e", "n", "c", "y">>, <<"c", "u", "r", "r", "e", "n", "c", "y">>>>,
    <<<<"t", "x", "n", "t", "y", "p", "e">>, <<"t", "r", "a", "n", "s", "a", "c", "t", "i", "o", "n", "_", "t", "y", "p", "e">>>>,
    <<<<"a", "c", "c", "o", "u", "n", "t", "i", "d">>, <<"a", "c", "c", "o", "u", "n", "t", "_", "n", "a", "m", "e">>>>,
    <<<<"a", "c", "c", "o", "u", "n", "t", "n", "a", "m", "e">>, <<"a", "c", "c", "o", "u", "n", "t", "_", "n", "a", "m", "e">>>>,
    <<<<"a", "c", "c", "o", "u", "n", "t", "t", "y", "p", "e">>, <<"a", "c", "c", "o", "u", "n", "t", "_", "t", "y", "p", "e">>>>,
    <<<<"r", "e", "l", "a", "t", "e", "d", "t", "x", "n">>, <<"r", "e", "l", "a", "t", "e", "d", "_", "t", "x", "n">>>>,
    <<<<"t", "x", "n", "d", "e", "s", "c", "r", "i", "p", "t", "i", "o", "n">>, <<"d", "e", "s", "c", "r", "i", "p", "t", "i", "o", "n">>>>,
    <<<<"p", "a", "r", "t", "y", "n", "a", "m", "e">>, <<"p", "a", "r", "t", "y">>>>,
    <<<<"t", "x", "n", "m", "o", "d", "e">>, <<"t", "r", "a", "n", "s", "a", "c", "t", "i", "o", "n", "_", "m", "o", "d", "e">>>>,
    <<<<"t", "x", "n", "n", "a", "t", "u", "r", "e">>, <<"t", "r", "a", "n", "s", "a", "c", "t", "i", "o", "n", "_", "n", "a", "t", "u", "r", "e">>>>,
    <<<<"t", "x", "n", "c", "a", "t", "e", "g", "o", "r", "y">>, <<"c", "a", "t", "e", "g", "o", "r", "y", "_", "n", "a", "m", "e">>>>,
    <<<<"t", "x", "n", "s", "u", "b", "c", "a", "t", "e", "g", "o", "r", "y">>, <<"s", "u", "b", "c", "a", "t", "e", "g", "o", "r", "y", "_", "n", "a", "m", "e">>>>,
    <<<<"t", "x", "n", "t", "a", "g">>, <<"t", "a", "g">>>>,
    <<<<"t", "x", "n", "g", "r", "o", "u", "p">>, <<"g", "r", "o", "u", "p", "_", "n", "a", "m", "e">>>>,
    <<<<"t", "r", "a", "n", "s", "a", "c", "t", "i", "o", "n", "_", "d", "a", "t", "e">>, <<"t", "r", "a", "n", "s", "a", "c", "t", "i", "o", "n", "_", "d", "a", "t", "e">>>>,
    <<<<"t", "r", "a", "n", "s", "a", "c", "t", "i", "o", "n", "_", "t", "y", "p", "e">>, <<"t", "r", "a", "n", "s", "a", "c", "t", "i", "o", "n", "_", "t", "y", "p", "e">>>>,
    <<<<"t", "r", "a", "n", "s", "a", "c", "t", "i", "o", "n", "_", "m", "o", "d", "e">>, <<"t", "r", "a", "n", "s", "a", "c", "t", "i", "o", "n", "_", "m", "o", "d", "e">>>>,
    <<<<"t", "r", "a", "n", "s", "a", "c", "t", "i", "o", "n", "_", "n", "a", "t", "u", "r", "e">>, <<"t", "r", "a", "n", "s", "a", "c", "t", "i", "o", "n", "_", "n", "a", "t", "u", "r", "e">>>>,
    <<<<"a", "c", "c", "o", "u", "n", "t", "_", "n", "a", "m", "e">>, <<"a", "c", "c", "o", "u", "n", "t", "_", "n", "a", "m", "e">>>>,
    <<<<"c", "a", "t", "e", "g", "o", "r", "y", "_", "n", "a", "m", "e">>, <<"c", "a", "t", "e", "g", "o", "r", "y", "_", "n", "a", "m", "e">>>>,
    <<<<"d", "e", "s", "c", "r", "i", "p", "t", "i", "o", "n">>, <<"d", "e", "s", "c", "r", "i", "p", "t", "i", "o", "n">>>>,
    <<<<"p", "a", "r", "t", "y">>, <<"p", "a", "r", "t", "y">>>>,
    <<<<"t", "a", "g">>, <<"t", "a", "g">>>>,
    <<<<"g", "r", "o", "u", "p", "_", "n", "a", "m", "e">>, <<"g", "r", "o", "u", "p", "_", "n", "a", "m", "e">>>> >>

VALID_TRANSACTION_TYPES == <<<<"D", "e", "b", "i", "t">>, <<"C", "r", "e", "d", "i", "t">>>>
VALID_MODES == <<<<"U", "P", "I">>, <<"N", "E", "F", "T">>, <<"I", "M", "P", "S">>, <<"R", "T", "G", "S">>, <<"C", "h", "e", "q", "u", "e">>, <<"B", "B", "P", "S">>, <<"E", "M", "I">>,
                 <<"C", "a", "s", "h">>, <<"C", "a", "r", "d">>, <<"A", "C", "H">>, <<"O", "t", "h", "e", "r">>>>
VALID_NATURES == <<<<"C", "h", "a", "r", "g", "e">>, <<"M", "o", "n", "e", "y", " ", "T", "r", "a", "n", "s", "f", "e", "r">>, <<"A", "u", "t", "o", " ", "S", "w", "e", "e", "p">>, <<"R", "e", "v", "e", "r", "s", "a", "l">>,
                   <<"R", "e", "w", "a", "r", "d", "s">>, <<"S", "y", "s", "t", "e", "m", " ", "C", "h", "a", "r", "g", "e">>>>

\* Array.prototype.includes
includes(array, x) == \E i \in 1..Len(array) : array[i] = x

\* header.toLowerCase().replace(/[\s_-]+/g, ''), then HEADER_MAP[normalized] || normalized
normalizeHeader(header) ==
    LET normalized == Without(toLowerCase(header), Whitespace \cup {"_", "-"})
    IN IF \E k \in 1..Len(HEADER_MAP) : HEADER_MAP[k][1] = normalized
       THEN HEADER_MAP[CHOOSE k \in 1..Len(HEADER_MAP) : HEADER_MAP[k][1] = normalized][2]
       ELSE normalized

\* inQuotes when the loops of splitCSVRows and parseCSVLine reach position i: every
\* quotation mark before i has toggled it
inQuotesAt(s, i) == Cardinality({j \in 1..(i - 1) : s[j] = "\""}) % 2 = 1

\* The elements of a set of positions in increasing order
Ascending(positions) ==
    [k \in 1..Cardinality(positions) |->
        CHOOSE x \in positions : Cardinality({y \in positions : y < x}) = k - 1]

\* The pieces of s between the positions of cuts, the empty ones included
Pieces(s, cuts) ==
    LET at == Ascending(cuts \cup {0, Len(s) + 1})
    IN [k \in 1..(Len(at) - 1) |-> SubSeq(s, at[k] + 1, at[k + 1] - 1)]

\* A row ends at a line break outside quotes (the "\n" of a "\r\n" ends an empty
\* row); rows that trim to nothing are not pushed
splitCSVRows(content) ==
    SelectSeq(Pieces(content, {i \in 1..Len(content) :
                                  content[i] \in {"\n", "\r"} /\ ~inQuotesAt(content, i)}),
              LAMBDA currentRow : trim(currentRow) # <<>>)

\* A field ends at a delimiter outside quotes; the quotation marks are dropped
parseCSVLine(line, delimiter) ==
    LET fields == Pieces(line, {i \in 1..Len(line) :
                                   line[i] = delimiter /\ ~inQuotesAt(line, i)})
    IN [k \in 1..Len(fields) |-> Without(fields[k], {"\""})]

\* headers.forEach((header, index) => { row[header] = values[index]?.trim() || '' })
\* read at one key: the last column with that header decides
RowCell(headers, values, key) ==
    IF \E k \in 1..Len(headers) : headers[k] = key
    THEN LET index == CHOOSE k \in 1..Len(headers) :
                          headers[k] = key /\ \A j \in (k + 1)..Len(headers) : headers[j] # key
         IN IF index <= Len(values) THEN trim(values[index]) ELSE <<>>
    ELSE undefined

\* x || undefined
OrUndefined(v) == IF Truthy(v) THEN v ELSE undefined

Message(text, cell) == [text |-> text, cell |-> cell]

\* The body of the loop of parseCSV for the row at index i (0-based) of rows
ParsedRow(headers, values, i) ==
    LET transaction_date == RowCell(headers, values, <<"t", "r", "a", "n", "s", "a", "c", "t", "i", "o", "n", "_", "d", "a", "t", "e">>)
        amount == RowCell(headers, values, <<"a", "m", "o", "u", "n", "t">>)
        type == RowCell(headers, values, <<"t", "r", "a", "n", "s", "a", "c", "t", "i", "o", "n", "_", "t", "y", "p", "e">>)
        transaction_mode == RowCell(headers, values, <<"t", "r", "a", "n", "s", "a", "c", "t", "i", "o", "n", "_", "m", "o", "d", "e">>)
        transaction_nature == RowCell(headers, values, <<"t", "r", "a", "n", "s", "a", "c", "t", "i", "o", "n", "_", "n", "a", "t", "u", "r", "e">>)
        amountStr == IF amount = undefined THEN <<>> ELSE Without(amount, {","})
        parsedAmount == parseFloat(amountStr)
        errors ==
            (IF ~Truthy(transaction_date) THEN <<Message("Date is required", <<>>)>>
             ELSE <<>>)
            \o (IF ~Truthy(amountStr) \/ isNaN(parsedAmount)
                THEN <<Message("Valid amount is required", <<>>)>> ELSE <<>>)
            \o (IF ~Truthy(type) \/ ~includes(VALID_TRANSACTION_TYPES, type)
                THEN <<Message("Type must be Debit or Credit", <<>>)>> ELSE <<>>)
            \o (IF Truthy(transaction_mode) /\ ~includes(VALID_MODES, transaction_mode)
                THEN <<Message("Invalid mode: ", transaction_mode)>> ELSE <<>>)
            \o (IF Truthy(transaction_nature) /\ ~includes(VALID_NATURES, transaction_nature)
                THEN <<Message("Invalid nature: ", transaction_nature)>> ELSE <<>>)
            \o (IF Truthy(transaction_date) /\ ~dateRegex(transaction_date)
                THEN <<Message("Date must be YYYY-MM-DD format", <<>>)>> ELSE <<>>)
    IN [rowIndex |-> i + 1,
        transaction_date |-> transaction_date,
        amount |-> OrZero(parsedAmount),
        currency |-> OrUndefined(RowCell(headers, values, <<"c", "u", "r", "r", "e", "n", "c", "y">>)),
        transaction_type |-> IF Truthy(type) THEN type ELSE <<"D", "e", "b", "i", "t">>,
        description |-> OrUndefined(RowCell(headers, values, <<"d", "e", "s", "c", "r", "i", "p", "t", "i", "o", "n">>)),
        party |-> OrUndefined(RowCell(headers, values, <<"p", "a", "r", "t", "y">>)),
        bank_remarks |-> OrUndefined(RowCell(headers, values, <<"b", "a", "n", "k", "_", "r", "e", "m", "a", "r", "k", "s">>)),
        account_name |-> OrUndefined(RowCell(headers, values, <<"a", "c", "c", "o", "u", "n", "t", "_", "n", "a", "m", "e">>)),
        category_name |-> OrUndefined(RowCell(headers, values, <<"c", "a", "t", "e", "g", "o", "r", "y", "_", "n", "a", "m", "e">>)),
        subcategory_name |-> OrUndefined(RowCell(headers, values, <<"s", "u", "b", "c", "a", "t", "e", "g", "o", "r", "y", "_", "n", "a", "m", "e">>)),
        tag |-> OrUndefined(RowCell(headers, values, <<"t", "a", "g">>)),
        group_name |-> OrUndefined(RowCell(headers, values, <<"g", "r", "o", "u", "p", "_", "n", "a", "m", "e">>)),
        transaction_mode |-> OrUndefined(transaction_mode),
        transaction_nature |-> OrUndefined(transaction_nature),
        isValid |-> errors = <<>>,
        errors |-> errors]

parseCSV(content) ==
    LET rows == splitCSVRows(trim(content))
        firstRow == rows[1]
        delimiter == IF includes(firstRow, "\t") THEN "\t" ELSE ","
        rawHeaders == parseCSVLine(rows[1], delimiter)
        headers == [k \in 1..Len(rawHeaders) |-> normalizeHeader(trim(rawHeaders[k]))]
    IN IF Len(rows) < 2 THEN <<>>
       ELSE [k \in 1..(Len(rows) - 1) |->
                ParsedRow(headers, parseCSVLine(rows[k + 1], delimiter), k)]

-----------------------------------------------------------------------------
(* The files a user picks *)

NoFile == [name |-> "", headers |-> <<>>, rows |-> <<>>]

\* The header row of SAMPLE_CSV, and the same columns under their internal names
CamelHeaders == <<<<"t", "x", "n", "D", "a", "t", "e">>, <<"a", "m", "o", "u", "n", "t">>, <<"t", "x", "n", "T", "y", "p", "e">>, <<"a", "c", "c", "o", "u", "n", "t", "I", "D">>, <<"t", "x", "n", "D", "e", "s", "c", "r", "i", "p", "t", "i", "o", "n">>,
                  <<"p", "a", "r", "t", "y", "N", "a", "m", "e">>, <<"t", "x", "n", "M", "o", "d", "e">>, <<"t", "x", "n", "N", "a", "t", "u", "r", "e">>, <<"t", "x", "n", "C", "a", "t", "e", "g", "o", "r", "y">>>>
SnakeHeaders == <<<<"t", "r", "a", "n", "s", "a", "c", "t", "i", "o", "n", "_", "d", "a", "t", "e">>, <<"a", "m", "o", "u", "n", "t">>, <<"t", "r", "a", "n", "s", "a", "c", "t", "i", "o", "n", "_", "t", "y", "p", "e">>, <<"a", "c", "c", "o", "u", "n", "t", "_", "n", "a", "m", "e">>,
                  <<"d", "e", "s", "c", "r", "i", "p", "t", "i", "o", "n">>, <<"p", "a", "r", "t", "y">>, <<"t", "r", "a", "n", "s", "a", "c", "t", "i", "o", "n", "_", "m", "o", "d", "e">>, <<"t", "r", "a", "n", "s", "a", "c", "t", "i", "o", "n", "_", "n", "a", "t", "u", "r", "e">>,
                  <<"c", "a", "t", "e", "g", "o", "r", "y", "_", "n", "a", "m", "e">>>>

DateCells == {<<"2", "0", "2", "4", "-", "0", "1", "-", "1", "5">>, <<>>, <<"1", "5", "/", "0", "1", "/", "2", "0", "2", "4">>}
AmountCells == {<<"1", "5">>, <<"1", ",", "5", "0", "0", ".", "5", "0">>, <<"1", "2", "a", "b", "c">>, <<"a", "b", "c">>, <<>>}
TypeCells == {<<"D", "e", "b", "i", "t">>, <<"C", "r", "e", "d", "i", "t">>, <<"d", "e", "b", "i", "t">>, <<>>}
ModeCells == {<<>>, <<"U", "P", "I">>, <<"W", "i", "r", "e">>}
NatureCells == {<<>>, <<"A", "u", "t", "o", " ", "S", "w", "e", "e", "p">>, <<"G", "i", "f", "t">>}
AccountCells == {<<>>, <<"H", "D", "F", "C">>, <<"h", "d", "f", "c">>, <<"A", "x", "i", "s">>}

FileRow(date, amount, type, account, mode, nature) ==
    <<date, amount, type, account, <<"T", "e", "a">>, <<>>, mode, nature, <<"F", "o", "o", "d">>>>

\* Rows that differ in the validated cells
CheckedRows ==
    {FileRow(d, a, t, <<"H", "D", "F", "C">>, m, n) :
        d \in DateCells, a \in AmountCells, t \in TypeCells, m \in ModeCells,
        n \in NatureCells}

\* Rows of the files with two rows: valid ones for each account cell, and an invalid one
ImportRows ==
    {FileRow(<<"2", "0", "2", "4", "-", "0", "1", "-", "1", "5">>, <<"1", "5">>, <<"D", "e", "b", "i", "t">>, acc, <<"U", "P", "I">>, <<>>) : acc \in AccountCells}
    \cup {FileRow(<<>>, <<"1", "5">>, <<"D", "e", "b", "i", "t">>, <<"H", "D", "F", "C">>, <<"U", "P", "I">>, <<>>)}

\* Rows of the files with three rows: a valid one, and invalid ones that share
\* some of their errors
ErrorRows ==
    {FileRow(<<"2", "0", "2", "4", "-", "0", "1", "-", "1", "5">>, <<"1", "5">>, <<"D", "e", "b", "i", "t">>, <<"H", "D", "F", "C">>, <<"U", "P", "I">>, <<>>),
     FileRow(<<>>, <<"1", "5">>, <<"D", "e", "b", "i", "t">>, <<"H", "D", "F", "C">>, <<"U", "P", "I">>, <<>>),
     FileRow(<<"2", "0", "2", "4", "-", "0", "1", "-", "1", "5">>, <<"a", "b", "c">>, <<"D", "e", "b", "i", "t">>, <<"H", "D", "F", "C">>, <<>>, <<>>),
     FileRow(<<>>, <<"a", "b", "c">>, <<"D", "e", "b", "i", "t">>, <<"H", "D", "F", "C">>, <<"W", "i", "r", "e">>, <<>>),
     FileRow(<<"2", "0", "2", "4", "-", "0", "1", "-", "1", "5">>, <<"1", "5">>, <<"D", "e", "b", "i", "t">>, <<"H", "D", "F", "C">>, <<"W", "i", "r", "e">>, <<>>),
     FileRow(<<"2", "0", "2", "4", "-", "0", "1", "-", "1", "5">>, <<"1", "5">>, <<"D", "e", "b", "i", "t">>, <<"H", "D", "F", "C">>, <<"C", "h", "e", "q", "u", "e">>, <<>>)}

FileName == "transactions.csv"

Files ==
    {[name |-> FileName, headers |-> h, rows |-> rows] :
        h \in {CamelHeaders, SnakeHeaders},
        rows \in {<<r>> : r \in CheckedRows} \cup (ImportRows \X ImportRows)
                     \cup (ErrorRows \X ErrorRows \X ErrorRows)}

RECURSIVE Join(_, _)
Join(parts, separator) ==
    IF parts = <<>> THEN <<>>
    ELSE IF Len(parts) = 1 THEN parts[1]
    ELSE parts[1] \o separator \o Join(Tail(parts), separator)

\* A cell as a CSV file holds it: in double quotes when it has a comma in it
Quoted(cell) == IF includes(cell, ",") THEN <<"\"">> \o cell \o <<"\"">> ELSE cell

CSVLine(cells) == Join([k \in 1..Len(cells) |-> Quoted(cells[k])], <<",">>)

\* The text of a file: the header row, then a line for each row
CSVText(f) ==
    Join(<<CSVLine(f.headers)>> \o [k \in 1..Len(f.rows) |-> CSVLine(f.rows[k])],
         <<"\n">>)

-----------------------------------------------------------------------------
(* The transaction import dialog: state and handlers *)

\* Every parsed row, in error or not
allTransactions(parsed) == parsed

\* parsedData.filter(t => t.isValid)
validTransactions(parsed) == SelectSeq(parsed, LAMBDA t : t.isValid)

validCount == Len(validTransactions(parsedData))

\* transactions.forEach(...) of detectUnmatchedAccounts: the counts by lower-case
\* name, in the order in which the names first occur
RECURSIVE CountUnmatched(_, _, _)
CountUnmatched(parsed, known, unmatched) ==
    IF parsed = <<>> THEN unmatched
    ELSE LET t == Head(parsed)
             key == toLowerCase(t.account_name)
             exists == \E k \in 1..Len(known) : toLowerCase(known[k].name) = key
         IN IF ~Truthy(t.account_name) \/ exists
            THEN CountUnmatched(Tail(parsed), known, unmatched)
            ELSE IF \E k \in 1..Len(unmatched) : unmatched[k].name = key
            THEN CountUnmatched(Tail(parsed), known,
                     [k \in 1..Len(unmatched) |->
                         IF unmatched[k].name = key
                         THEN [unmatched[k] EXCEPT !.count = @ + 1] ELSE unmatched[k]])
            ELSE CountUnmatched(Tail(parsed), known,
                                Append(unmatched, [name |-> key, count |-> 1]))

detectUnmatchedAccounts(parsed) == CountUnmatched(parsed, initialAccounts, <<>>)

\* null in a text column
null == <<"null">>

\* x || null
OrNull(v) == IF Truthy(v) THEN v ELSE null

\* A match by the exact name
MatchAccountExactCase(known, account_name) ==
    LET matches == {k \in 1..Len(known) : known[k].name = account_name}
    IN IF matches = {} THEN NULL
       ELSE known[CHOOSE k \in matches : \A j \in matches : k <= j].id

\* initialAccounts.find(a => a.name.toLowerCase() === t.account_name?.toLowerCase())?.id || null
MatchAccount(known, account_name) ==
    LET matches == {k \in 1..Len(known) :
                       account_name # undefined
                           /\ toLowerCase(known[k].name) = toLowerCase(account_name)}
    IN IF matches = {} THEN NULL
       ELSE known[CHOOSE k \in matches : \A j \in matches : k <= j].id

\* validTransactions.map(t => ({ user_id: userId, ... }))
transactionsToInsert(valid, known, userId) ==
    [k \in 1..Len(valid) |->
        [user_id |-> userId,
         transaction_date |-> valid[k].transaction_date,
         amount |-> valid[k].amount,
         currency |-> IF Truthy(valid[k].currency) THEN valid[k].currency ELSE <<"I", "N", "R">>,
         transaction_type |-> valid[k].transaction_type,
         description |-> OrNull(valid[k].description),
         party |-> OrNull(valid[k].party),
         bank_remarks |-> OrNull(valid[k].bank_remarks),
         account_id |-> MatchAccount(known, valid[k].account_name),
         category_name |-> OrNull(valid[k].category_name),
         subcategory_name |-> OrNull(valid[k].subcategory_name),
         tag |-> OrNull(valid[k].tag),
         group_name |-> OrNull(valid[k].group_name),
         transaction_mode |-> OrNull(valid[k].transaction_mode),
         transaction_nature |-> OrNull(valid[k].transaction_nature)]]

RECURSIVE Pow10(_)
Pow10(n) == IF n = 0 THEN 1 ELSE 10 * Pow10(n - 1)

\* A number as a DECIMAL(15,2) column stores it, in units of 0.01
ToCents(n) ==
    LET magnitude == IF n.e + 2 >= 0 THEN n.m * Pow10(n.e + 2)
                     ELSE (n.m + (Pow10(0 - (n.e + 2)) \div 2)) \div Pow10(0 - (n.e + 2))
    IN IF n.neg THEN 0 - magnitude ELSE magnitude

\* The text of a label as the enum column stores it
EnumLabel(text) ==
    IF text = <<"D", "e", "b", "i", "t">> THEN "Debit" ELSE IF text = <<"C", "r", "e", "d", "i", "t">> THEN "Credit" ELSE NULL

\* A row of the request body as a row of transactions
AsTransactionRow(p) ==
    [user_id |-> p.user_id, transaction_date |-> p.transaction_date,
     amount |-> ToCents(p.amount), transaction_type |-> EnumLabel(p.transaction_type),
     account_id |-> p.account_id, category_id |-> NULL, subcategory_id |-> NULL, tag_id |-> NULL,
     group_id |-> NULL]

\* The body can be stored: the amount is a number, the type a label
Storable(body) ==
    \A k \in 1..Len(body) :
        /\ ~body[k].amount.nan /\ ~body[k].amount.inf
        /\ EnumLabel(body[k].transaction_type) # NULL
        /\ dateRegex(body[k].transaction_date)

\* accountsRes of fetchData: the user's accounts
FetchedAccounts(db, uid) ==
    LET ids == InPoolOrder(AccountIdPool, Ids({a \in db.accounts : OwnRow(uid, a)}))
    IN [k \in 1..Len(ids) |->
           [id |-> ids[k], name |-> RowById(db.accounts, ids[k]).name]]

\* <DialogTrigger>
OpenDialog ==
    /\ ~isOpen
    /\ isOpen' = TRUE
    /\ UNCHANGED <<parsedData, fileName, isImporting, unmatchedAccounts, file,
                   pc, insert_requests, importCompleted, initialAccounts, dbvars>>

\* Cancel, or onOpenChange(false)
CloseDialog ==
    /\ isOpen
    /\ isOpen' = FALSE
    /\ UNCHANGED <<parsedData, fileName, isImporting, unmatchedAccounts, file,
                   pc, insert_requests, importCompleted, initialAccounts, dbvars>>

\* handleFileSelect with a file whose name ends in .csv, and the reader.onload
\* that follows it; a file is picked while the file input is empty
HandleFileSelect(f) ==
    /\ isOpen
    /\ file = NoFile /\ Len(insert_requests) < MaxImports
    /\ fileName' = f.name
    /\ file' = f
    /\ parsedData' = parseCSV(CSVText(f))
    /\ unmatchedAccounts' = detectUnmatchedAccounts(parsedData')
    /\ UNCHANGED <<isOpen, isImporting, pc, insert_requests, importCompleted,
                   initialAccounts, dbvars>>

\* handleImport up to the await; the button is disabled without valid rows and
\* while an import runs
HandleImport(uid) ==
    /\ isOpen
    /\ validCount # 0 /\ ~isImporting
    /\ Len(insert_requests) < MaxImports
    /\ isImporting' = TRUE
    /\ insert_requests' = Append(insert_requests,
           transactionsToInsert(validTransactions(parsedData), initialAccounts, uid))
    /\ pc' = "awaiting insert"
    /\ UNCHANGED <<isOpen, parsedData, fileName, unmatchedAccounts, file,
                   importCompleted, initialAccounts, dbvars>>

\* The try block after the await: the dialog is closed and emptied, the file
\* input is reset, the page fetches its data again
ImportSucceeded(uid, db) ==
    /\ isOpen' = FALSE
    /\ parsedData' = <<>>
    /\ fileName' = ""
    /\ unmatchedAccounts' = <<>>
    /\ file' = NoFile
    /\ importCompleted' = importCompleted + 1
    /\ initialAccounts' = FetchedAccounts(db, uid)

\* The catch block: a toast
ImportFailedAndClosed ==
    /\ isOpen' = FALSE
    /\ parsedData' = <<>>
    /\ fileName' = ""
    /\ UNCHANGED <<unmatchedAccounts, file, importCompleted, initialAccounts>>

ImportFailed ==
    UNCHANGED <<isOpen, parsedData, fileName, unmatchedAccounts, file, importCompleted,
                initialAccounts>>

\* The insert is answered and handleImport runs to its end.  The database refuses
\* what it cannot store; any request can fail on its way.
InsertAnswered(uid, lost) ==
    /\ pc = "awaiting insert"
    /\ LET body == insert_requests[Len(insert_requests)]
           result == IF lost \/ ~Storable(body) THEN Rejected(DB)
                     ELSE InsertTransactions(DB, uid,
                              [k \in 1..Len(body) |-> AsTransactionRow(body[k])])
       IN /\ Commit(uid, "insert", "transactions", result)
          /\ IF result.error THEN ImportFailed ELSE ImportSucceeded(uid, result.db)
    /\ isImporting' = FALSE
    /\ pc' = "idle"
    /\ UNCHANGED <<insert_requests, client_requests>>

AccountSetups == {<<<<"H", "D", "F", "C">>>>, <<<<"C", "a", "s", "h">>, <<"H", "D", "F", "C">>>>}

\* The page has loaded: the user's accounts are there and fetched
InitImport ==
    /\ InitDB
    /\ DialogClosed
    /\ NoItems
    /\ \E uid \in PageUsers, names \in AccountSetups :
          /\ accounts = {("id" :> AccountIdPool[k]) @@ NewAccount(uid, names[k], 1, 1) :
                            k \in 1..Len(names)}
          /\ initialAccounts = [k \in 1..Len(names) |->
                                   [id |-> AccountIdPool[k], name |-> names[k]]]

NextImport ==
    /\ \E uid \in PageUsers :
          \/ OpenDialog
          \/ CloseDialog
          \/ \E f \in Files : HandleFileSelect(f)
          \/ HandleImport(uid)
          \/ \E lost \in BOOLEAN : InsertAnswered(uid, lost)
    /\ UNCHANGED itemvars

SpecImport == InitImport /\ [][NextImport]_vars

-----------------------------------------------------------------------------
(* Closing balance and audit trail *)

Credits(a) == {t \in transactions : t.account_id = a.id /\ t.transaction_type = "Credit"}
Debits(a) == {t \in transactions : t.account_id = a.id /\ t.transaction_type = "Debit"}

AuditedTables == {"transactions", "accounts"}

AuditKey(l) == [op |-> l.action, table |-> l.table_name, id |-> l.record_id]

Occurrences(seq, x) == Cardinality({i \in 1..Len(seq) : seq[i] = x})

AuditKeys == [i \in 1..Len(audit_logs) |-> AuditKey(audit_logs[i])]

\* C2: each row event on transactions or accounts, a client's or a trigger's, has
\* exactly one audit_logs row with its operation, table and row id; old_data is
\* there for UPDATE and DELETE only, new_data for INSERT and UPDATE only.
EveryRowChangeIsAuditedOnce ==
    /\ \A e \in SeqToSet(row_events) \cup SeqToSet(AuditKeys) :
           e.table \in AuditedTables
               => Occurrences(AuditKeys, e) = Occurrences(row_events, e)
    /\ \A i \in 1..Len(audit_logs) :
           /\ audit_logs[i].action \in {"INSERT", "UPDATE", "DELETE"}
           /\ (audit_logs[i].old_data # JsonNull)
                  <=> (audit_logs[i].action \in {"UPDATE", "DELETE"})
           /\ (audit_logs[i].new_data # JsonNull)
                  <=> (audit_logs[i].action \in {"INSERT", "UPDATE"})

\* An account was deleted while a transaction referred to it: the request changed
\* the account row and, through ON DELETE SET NULL, the transaction row.
DeletedAccountWithTransactions ==
    /\ \E i \in 1..Len(row_events) :
           row_events[i].op = "DELETE" /\ row_events[i].table = "accounts"
    /\ \E i \in 1..Len(row_events) :
           row_events[i].op = "UPDATE" /\ row_events[i].table = "transactions"
    /\ Len(audit_logs) = 2

-----------------------------------------------------------------------------
(* Isolation of the users' rows *)

ProtectedTables == {"accounts", "transactions", "tags", "transaction_groups", "budgets"}

RowsOf(table, B) == {r \in Table(table) : r.user_id = B}

\* C3: a request of a user leaves the rows of every other user in accounts,
\* transactions, tags, transaction_groups and budgets as they were, and a select
\* on these tables returns no row of another user.
RequestsLeaveOtherUsersRowsAlone ==
    [][\A B \in UserIds \ {last_request'.uid} :
          /\ \A table \in ProtectedTables : RowsOf(table, B)' = RowsOf(table, B)
          /\ last_request'.table \in ProtectedTables =>
                 \A r \in returned' : r.user_id # B]_vars

-----------------------------------------------------------------------------
(* The transaction import: validation, headers, the insert *)

\* The cell is a decimal numeral, thousands separators allowed: an optional sign,
\* digits, an optional fraction, and nothing else
IsNumericValue(cell) ==
    LET s == Without(cell, {","})
        u == IF s # <<>> /\ Head(s) \in {"+", "-"} THEN Tail(s) ELSE s
        int == DigitPrefix(u)
        rest == Drop(u, Len(int))
        frac == IF rest # <<>> /\ Head(rest) = "." THEN DigitPrefix(Tail(rest)) ELSE <<>>
    IN /\ int # <<>> \/ frac # <<>>
       /\ rest = <<>> \/ (Head(rest) = "." /\ Len(rest) = 1 + Len(frac))

\* The rules of the format guide that the cells of a file row break
ViolatedRules(cells) ==
    {rule \in {"date", "amount", "type", "mode", "nature"} :
        \/ rule = "date" /\ ~(cells[1] # <<>> /\ dateRegex(cells[1]))
        \/ rule = "amount" /\ ~IsNumericValue(cells[2])
        \/ rule = "type" /\ cells[3] \notin {<<"D", "e", "b", "i", "t">>, <<"C", "r", "e", "d", "i", "t">>}
        \/ rule = "mode" /\ ~(cells[7] = <<>> \/ includes(VALID_MODES, cells[7]))
        \/ rule = "nature" /\ ~(cells[8] = <<>> \/ includes(VALID_NATURES, cells[8]))}

\* C4: with the headers of the format guide, parseCSV marks a row valid exactly
\* when its date is there in the form YYYY-MM-DD, its amount is a numeric value,
\* its type is Debit or Credit and its mode and nature are empty or listed; errors
\* has one message for each rule the row breaks.
RowIsValidIffItMeetsTheRules ==
    file.headers = CamelHeaders =>
        \A k \in 1..Len(parsedData) :
            /\ parsedData[k].isValid <=> ViolatedRules(file.rows[k]) = {}
            /\ Len(parsedData[k].errors) = Cardinality(ViolatedRules(file.rows[k]))

\* C7: a file with the snake_case headers is parsed into the rows that the same
\* file with the headers txnDate, txnType, ... is parsed into.
SnakeCaseHeadersParseLikeCamelCase ==
    file.headers = SnakeHeaders =>
        parsedData = parseCSV(CSVText([file EXCEPT !.headers = CamelHeaders]))

ImportClicked == pc = "idle" /\ pc' = "awaiting insert"
InsertReturned == pc = "awaiting insert" /\ pc' = "idle"

\* The positions in parsedData of the rows without an error, in order
ValidPositions == Ascending({k \in 1..Len(parsedData) : parsedData[k].errors = <<>>})

LastInsert(requests) == requests[Len(requests)]

\* C5: a click on Import sends one insert whose rows are the parsed rows without
\* an error, in order and whatever the other rows are; nothing else of
\* handleImport sends a request, and an insert that succeeds adds that many rows.
ImportSendsExactlyTheValidRows ==
    [][/\ Len(insert_requests') = Len(insert_requests) + (IF ImportClicked THEN 1 ELSE 0)
       /\ ImportClicked =>
            LET sent == LastInsert(insert_requests')
            IN /\ Len(sent) = Len(ValidPositions)
               /\ Len(sent) > 0
               /\ \A j \in 1..Len(sent) :
                    /\ sent[j].transaction_date = parsedData[ValidPositions[j]].transaction_date
                    /\ sent[j].amount = parsedData[ValidPositions[j]].amount
                    /\ sent[j].transaction_type = parsedData[ValidPositions[j]].transaction_type
       /\ (InsertReturned /\ ~last_request'.error) =>
            Cardinality(transactions')
                = Cardinality(transactions) + Len(LastInsert(insert_requests))]_vars

\* An import of a file with a row in error is under way: its valid rows are sent
ImportOfFileWithInvalidRows ==
    /\ pc = "awaiting insert"
    /\ \E k \in 1..Len(parsedData) : parsedData[k].errors # <<>>
    /\ Len(LastInsert(insert_requests)) = 1

\* C6: when the insert returns an error, transactions is as it was, the dialog's
\* isOpen, parsedData and fileName are as they were, onImportComplete has not been
\* called, and isImporting is false.
FailedInsertLeavesDialogAsItWas ==
    [][(InsertReturned /\ last_request'.error) =>
          /\ transactions' = transactions
          /\ isOpen' = isOpen
          /\ parsedData' = parsedData
          /\ fileName' = fileName
          /\ importCompleted' = importCompleted
          /\ isImporting' = FALSE]_vars

\* An import has failed and the dialog is still open on the file
ImportHasFailed ==
    /\ pc = "idle"
    /\ Len(insert_requests) = 1
    /\ last_request.error
    /\ isOpen /\ parsedData # <<>> /\ fileName = FileName
    /\ ~isImporting /\ importCompleted = 0

\* The accounts the dialog knows whose name is the given one, ignoring case
AccountsNamed(name) ==
    {a \in SeqToSet(initialAccounts) :
        name # undefined /\ toLowerCase(a.name) = toLowerCase(name)}

\* C8: each row sent has the id of an account of that name, ignoring case, or
\* null when the name is empty or no account has it; the rows are stored with
\* these ids, and no account is created.
ImportLinksAccountsByName ==
    [][/\ ImportClicked =>
            LET sent == LastInsert(insert_requests')
            IN \A j \in 1..Len(sent) :
                   LET named == AccountsNamed(parsedData[ValidPositions[j]].account_name)
                   IN IF named = {} THEN sent[j].account_id = NULL
                      ELSE sent[j].account_id \in Ids(named)
       /\ InsertReturned =>
            /\ Ids(accounts') = Ids(accounts)
            /\ ~last_request'.error =>
                 {t.account_id : t \in transactions' \ transactions}
                     = {LastInsert(insert_requests)[j].account_id :
                          j \in 1..Len(LastInsert(insert_requests))}]_vars

\* Rows are sent of which one names an account in another case and one names an
\* account that is not there
ImportWithMatchedAndUnmatchedAccount ==
    /\ pc = "awaiting insert"
    /\ \E j1, j2 \in 1..Len(LastInsert(insert_requests)) :
          /\ parsedData[ValidPositions[j1]].account_name = <<"h", "d", "f", "c">>
          /\ LastInsert(insert_requests)[j1].account_id # NULL
          /\ parsedData[ValidPositions[j2]].account_name = <<"A", "x", "i", "s">>
          /\ LastInsert(insert_requests)[j2].account_id = NULL

-----------------------------------------------------------------------------
(* The import dialog that creates new items: parsing *)

\* The definitions with a 1 at the end of their name are those of this dialog
\* where the other import dialog has one of the same name.

HEADER_MAP1 == <<
    <<<<"t", "x", "n", "i", "d">>, <<"t", "x", "n", "_", "i", "d">>>>,
    <<<<"t", "x", "n", "d", "a", "t", "e">>, <<"t", "r", "a", "n", "s", "a", "c", "t", "i", "o", "n", "_", "d", "a", "t", "e">>>>,
    <<<<"t", "x", "n", "d", "a", "y">>, <<"d", "a", "y">>>>,
    <<<<"b", "a", "n", "k", "r", "e", "m", "a", "r", "k", "s">>, <<"b", "a", "n", "k", "_", "r", "e", "m", "a", "r", "k", "s">>>>,
    <<<<"a", "m", "o", "u", "n", "t">>, <<"a", "m", "o", "u", "n", "t">>>>,
    <<<<"c", "u", "r", "r", "e", "n", "c", "y">>, <<"c", "u", "r", "r", "e", "n", "c", "y">>>>,
    <<<<"t", "x", "n", "t", "y", "p", "e">>, <<"t", "r", "a", "n", "s", "a", "c", "t", "i", "o", "n", "_", "t", "y", "p", "e">>>>,
    <<<<"a", "c", "c", "o", "u", "n", "t", "i", "d">>, <<"a", "c", "c", "o", "u", "n", "t", "_", "n", "a", "m", "e">>>>,
    <<<<"a", "c", "c", "o", "u", "n", "t", "t", "y", "p", "e">>, <<"a", "c", "c", "o", "u", "n", "t", "_", "t", "y", "p", "e">>>>,
    <<<<"r", "e", "l", "a", "t", "e", "d", "t", "x", "n">>, <<"r", "e", "l", "a", "t", "e", "d", "_", "t", "x", "n">>>>,
    <<<<"t", "x", "n", "d", "e", "s", "c", "r", "i", "p", "t", "i", "o", "n">>, <<"d", "e", "s", "c", "r", "i", "p", "t", "i", "o", "n">>>>,
    <<<<"p", "a", "r", "t", "y", "n", "a", "m", "e">>, <<"p", "a", "r", "t", "y">>>>,
    <<<<"t", "x", "n", "m", "o", "d", "e">>, <<"t", "r", "a", "n", "s", "a", "c", "t", "i", "o", "n", "_", "m", "o", "d", "e">>>>,
    <<<<"t", "x", "n", "n", "a", "t", "u", "r", "e">>, <<"t", "r", "a", "n", "s", "a", "c", "t", "i", "o", "n", "_", "n", "a", "t", "u", "r", "e">>>>,
    <<<<"t", "x", "n", "c", "a", "t", "e", "g", "o", "r", "y">>, <<"c", "a", "t", "e", "g", "o", "r", "y", "_", "n", "a", "m", "e">>>>,
    <<<<"t", "x", "n", "s", "u", "b", "c", "a", "t", "e", "g", "o", "r", "y">>, <<"s", "u", "b", "c", "a", "t", "e", "g", "o", "r", "y", "_", "n", "a", "m", "e">>>>,
    <<<<"t", "x", "n", "t", "a", "g">>, <<"t", "a", "g", "_", "n", "a", "m", "e">>>>,
    <<<<"t", "x", "n", "g", "r", "o", "u", "p">>, <<"g", "r", "o", "u", "p", "_", "n", "a", "m", "e">>>>,
    <<<<"t", "r", "a", "n", "s", "a", "c", "t", "i", "o", "n", "_", "d", "a", "t", "e">>, <<"t", "r", "a", "n", "s", "a", "c", "t", "i", "o", "n", "_", "d", "a", "t", "e">>>>,
    <<<<"t", "r", "a", "n", "s", "a", "c", "t", "i", "o", "n", "_", "t", "y", "p", "e">>, <<"t", "r", "a", "n", "s", "a", "c", "t", "i", "o", "n", "_", "t", "y", "p", "e">>>>,
    <<<<"t", "r", "a", "n", "s", "a", "c", "t", "i", "o", "n", "_", "m", "o", "d", "e">>, <<"t", "r", "a", "n", "s", "a", "c", "t", "i", "o", "n", "_", "m", "o", "d", "e">>>>,
    <<<<"t", "r", "a", "n", "s", "a", "c", "t", "i", "o", "n", "_", "n", "a", "t", "u", "r", "e">>, <<"t", "r", "a", "n", "s", "a", "c", "t", "i", "o", "n", "_", "n", "a", "t", "u", "r", "e">>>>,
    <<<<"a", "c", "c", "o", "u", "n", "t", "_", "n", "a", "m", "e">>, <<"a", "c", "c", "o", "u", "n", "t", "_", "n", "a", "m", "e">>>>,
    <<<<"c", "a", "t", "e", "g", "o", "r", "y", "_", "n", "a", "m", "e">>, <<"c", "a", "t", "e", "g", "o", "r", "y", "_", "n", "a", "m", "e">>>>,
    <<<<"d", "e", "s", "c", "r", "i", "p", "t", "i", "o", "n">>, <<"d", "e", "s", "c", "r", "i", "p", "t", "i", "o", "n">>>>,
    <<<<"p", "a", "r", "t", "y">>, <<"p", "a", "r", "t", "y">>>> >>

DEFAULT_ACCOUNT_TYPE == "Bank Account"

VALID_NATURES1 == <<<<"M", "o", "n", "e", "y", " ", "T", "r", "a", "n", "s", "f", "e", "r">>, <<"A", "u", "t", "o", " ", "S", "w", "e", "e", "p">>, <<"S", "y", "s", "t", "e", "m", " ", "C", "h", "a", "r", "g", "e">>, <<"C", "h", "a", "r", "g", "e">>,
                    <<"R", "e", "v", "e", "r", "s", "a", "l">>, <<"R", "e", "w", "a", "r", "d", "s">>, <<"P", "u", "r", "c", "h", "a", "s", "e">>, <<"I", "n", "c", "o", "m", "e">>, <<"O", "t", "h", "e", "r">>>>

normalizeHeader1(header) ==
    LET normalized == Without(toLowerCase(header), Whitespace \cup {"_", "-"})
    IN IF \E k \in 1..Len(HEADER_MAP1) : HEADER_MAP1[k][1] = normalized
       THEN HEADER_MAP1[CHOOSE k \in 1..Len(HEADER_MAP1) : HEADER_MAP1[k][1] = normalized][2]
       ELSE normalized

\* The body of the loop of parseCSV for the row at index i (0-based) of rows
ParsedRow1(headers, values, i) ==
    LET transaction_date == RowCell(headers, values, <<"t", "r", "a", "n", "s", "a", "c", "t", "i", "o", "n", "_", "d", "a", "t", "e">>)
        amount == RowCell(headers, values, <<"a", "m", "o", "u", "n", "t">>)
        type == RowCell(headers, values, <<"t", "r", "a", "n", "s", "a", "c", "t", "i", "o", "n", "_", "t", "y", "p", "e">>)
        transaction_mode == RowCell(headers, values, <<"t", "r", "a", "n", "s", "a", "c", "t", "i", "o", "n", "_", "m", "o", "d", "e">>)
        transaction_nature == RowCell(headers, values, <<"t", "r", "a", "n", "s", "a", "c", "t", "i", "o", "n", "_", "n", "a", "t", "u", "r", "e">>)
        amountStr == IF amount = undefined THEN <<>> ELSE Without(amount, {","})
        parsedAmount == parseFloat(amountStr)
        errors ==
            (IF ~Truthy(transaction_date) THEN <<Message("Date is required", <<>>)>>
             ELSE <<>>)
            \o (IF ~Truthy(amountStr) \/ isNaN(parsedAmount)
                THEN <<Message("Valid amount is required", <<>>)>> ELSE <<>>)
            \o (IF ~Truthy(type) \/ ~includes(VALID_TRANSACTION_TYPES, type)
                THEN <<Message("Type must be Debit or Credit", <<>>)>> ELSE <<>>)
            \o (IF Truthy(transaction_mode) /\ ~includes(VALID_MODES, transaction_mode)
                THEN <<Message("Invalid mode: ", transaction_mode)>> ELSE <<>>)
            \o (IF Truthy(transaction_nature) /\ ~includes(VALID_NATURES1, transaction_nature)
                THEN <<Message("Invalid nature: ", transaction_nature)>> ELSE <<>>)
            \o (IF Truthy(transaction_date) /\ ~dateRegex(transaction_date)
                THEN <<Message("Date must be YYYY-MM-DD format", <<>>)>> ELSE <<>>)
    IN [rowIndex |-> i + 1,
        transaction_date |-> transaction_date,
        day |-> OrUndefined(RowCell(headers, values, <<"d", "a", "y">>)),
        amount |-> OrZero(parsedAmount),
        currency |-> OrUndefined(RowCell(headers, values, <<"c", "u", "r", "r", "e", "n", "c", "y">>)),
        transaction_type |-> IF Truthy(type) THEN type ELSE <<"D", "e", "b", "i", "t">>,
        description |-> OrUndefined(RowCell(headers, values, <<"d", "e", "s", "c", "r", "i", "p", "t", "i", "o", "n">>)),
        party |-> OrUndefined(RowCell(headers, values, <<"p", "a", "r", "t", "y">>)),
        bank_remarks |-> OrUndefined(RowCell(headers, values, <<"b", "a", "n", "k", "_", "r", "e", "m", "a", "r", "k", "s">>)),
        account_name |-> OrUndefined(RowCell(headers, values, <<"a", "c", "c", "o", "u", "n", "t", "_", "n", "a", "m", "e">>)),
        category_name |-> OrUndefined(RowCell(headers, values, <<"c", "a", "t", "e", "g", "o", "r", "y", "_", "n", "a", "m", "e">>)),
        subcategory_name |-> OrUndefined(RowCell(headers, values, <<"s", "u", "b", "c", "a", "t", "e", "g", "o", "r", "y", "_", "n", "a", "m", "e">>)),
        tag_name |-> OrUndefined(RowCell(headers, values, <<"t", "a", "g", "_", "n", "a", "m", "e">>)),
        group_name |-> OrUndefined(RowCell(headers, values, <<"g", "r", "o", "u", "p", "_", "n", "a", "m", "e">>)),
        transaction_mode |-> OrUndefined(transaction_mode),
        transaction_nature |-> OrUndefined(transaction_nature),
        related_txn |-> OrUndefined(RowCell(headers, values, <<"r", "e", "l", "a", "t", "e", "d", "_", "t", "x", "n">>)),
        isValid |-> errors = <<>>,
        errors |-> errors]

parseCSV1(content) ==
    LET rows == splitCSVRows(trim(content))
        firstRow == rows[1]
        delimiter == IF includes(firstRow, "\t") THEN "\t" ELSE ","
        rawHeaders == parseCSVLine(rows[1], delimiter)
        headers == [k \in 1..Len(rawHeaders) |-> normalizeHeader1(trim(rawHeaders[k]))]
    IN IF Len(rows) < 2 THEN <<>>
       ELSE [k \in 1..(Len(rows) - 1) |->
                ParsedRow1(headers, parseCSVLine(rows[k + 1], delimiter), k)]

\* Columns of SAMPLE_CSV: the date, the amount, the type, and the four items a
\* row can name
ItemHeaders == <<<<"t", "x", "n", "D", "a", "t", "e">>, <<"a", "m", "o", "u", "n", "t">>, <<"t", "x", "n", "T", "y", "p", "e">>, <<"a", "c", "c", "o", "u", "n", "t", "I", "D">>, <<"t", "x", "n", "C", "a", "t", "e", "g", "o", "r", "y">>,
                 <<"t", "x", "n", "T", "a", "g">>, <<"t", "x", "n", "G", "r", "o", "u", "p">>>>

ItemRow(date, account, category, tag, group) ==
    <<date, <<"1", "5">>, <<"D", "e", "b", "i", "t">>, account, category, tag, group>>

\* Valid rows: an account that is there or one that is not, with and without
\* other items
ItemRows ==
    {ItemRow(<<"2", "0", "2", "4", "-", "0", "1", "-", "1", "5">>, <<"H", "D", "F", "C">>, <<>>, <<>>, <<>>),
     ItemRow(<<"2", "0", "2", "4", "-", "0", "1", "-", "1", "5">>, <<"A", "x", "i", "s">>, <<>>, <<>>, <<>>),
     ItemRow(<<"2", "0", "2", "4", "-", "0", "1", "-", "1", "5">>, <<"A", "x", "i", "s">>, <<"F", "o", "o", "d">>, <<"t", "r", "i", "p">>, <<"G", "o", "a">>),
     ItemRow(<<"2", "0", "2", "4", "-", "0", "1", "-", "1", "5">>, <<"H", "D", "F", "C">>, <<"F", "o", "o", "d">>, <<>>, <<"G", "o", "a">>),
     ItemRow(<<"2", "0", "2", "4", "-", "0", "1", "-", "1", "5">>, <<"H", "D", "F", "C">>, <<>>, <<"t", "r", "i", "p">>, <<>>)}

\* Second rows: a new account again in another case, and a row in error that
\* names new items
SecondItemRows ==
    {ItemRow(<<"2", "0", "2", "4", "-", "0", "1", "-", "1", "6">>, <<"a", "x", "i", "s">>, <<>>, <<"T", "r", "i", "p">>, <<>>),
     ItemRow(<<>>, <<"I", "C", "I", "C", "I">>, <<"F", "o", "o", "d">>, <<>>, <<>>)}

ItemFiles ==
    {[name |-> FileName, headers |-> ItemHeaders, rows |-> rows] :
        rows \in {<<r>> : r \in ItemRows}
                     \cup ({r \in ItemRows : r[4] = <<"A", "x", "i", "s">>} \X SecondItemRows)}

-----------------------------------------------------------------------------
(* The import dialog that creates new items: state and handlers *)

EntityTypes == <<"account", "category", "tag", "group">>

\* The table an entity of a type is created in
TableOf(type) ==
    CASE type = "account" -> "accounts"
      [] type = "category" -> "categories"
      [] type = "tag" -> "tags"
      [] type = "group" -> "transaction_groups"

\* The state of the dialog with the entities of a type
StateOf(type) ==
    CASE type = "account" -> "accounts"
      [] type = "category" -> "categories"
      [] type = "tag" -> "tags"
      [] type = "group" -> "groups"

\* The column of a parsed row with the name of its entity of a type
NameOf(t, type) ==
    CASE type = "account" -> t.account_name
      [] type = "category" -> t.category_name
      [] type = "tag" -> t.tag_name
      [] type = "group" -> t.group_name

\* One of the four checks of detectNewEntities for a row: seen has the keys of
\* the entities pushed
DetectOne(entities, t, type, lists) ==
    LET name == NameOf(t, type)
        seen == \E k \in 1..Len(entities) :
                    /\ entities[k].type = type
                    /\ toLowerCase(entities[k].name) = toLowerCase(name)
        exists == \E k \in 1..Len(lists[StateOf(type)]) :
                      toLowerCase(lists[StateOf(type)][k].name) = toLowerCase(name)
    IN IF Truthy(name) /\ ~seen /\ ~exists
       THEN Append(entities, [name |-> name, type |-> type, selected |-> TRUE])
       ELSE entities

RECURSIVE DetectFrom(_, _, _)
DetectFrom(entities, parsed, lists) ==
    IF parsed = <<>> THEN entities
    ELSE LET t == Head(parsed)
             a == DetectOne(entities, t, "account", lists)
             c == DetectOne(a, t, "category", lists)
             tg == DetectOne(c, t, "tag", lists)
             g == DetectOne(tg, t, "group", lists)
         IN DetectFrom(g, Tail(parsed), lists)

detectNewEntities(parsed) == DetectFrom(<<>>, parsed, existing)

\* Every entity found, selected or not
allEntities(entities) == entities

\* newEntities.filter(e => e.selected)
selectedEntities(entities) == SelectSeq(entities, LAMBDA e : e.selected)

\* selected.filter(e => e.type === ...)
OfType(selected, type) == SelectSeq(selected, LAMBDA e : e.type = type)

\* The row createNewEntities sends for an entity
EntityPayload(e, userId) ==
    CASE e.type = "account" ->
             [user_id |-> userId, name |-> e.name, account_type |-> DEFAULT_ACCOUNT_TYPE,
              balance |-> 0]
      [] e.type = "category" -> [user_id |-> userId, name |-> e.name, is_system |-> FALSE]
      [] OTHER -> [user_id |-> userId, name |-> e.name]

\* The row as the table stores it: the balances of an account default to 0
AsEntityRow(type, p) ==
    IF type = "account" THEN NewAccount(p.user_id, p.name, 0, 0) ELSE p

\* list.find(x => x.name.toLowerCase() === name?.toLowerCase())?.id || null
FindId(list, name) == MatchAccount(list, name)

\* validTransactions.map(t => ({ user_id: userId, ... })); subcategories is empty
transactionsToInsert1(valid, lists, userId) ==
    [k \in 1..Len(valid) |->
        [user_id |-> userId,
         transaction_date |-> valid[k].transaction_date,
         day |-> OrNull(valid[k].day),
         amount |-> valid[k].amount,
         currency |-> IF Truthy(valid[k].currency) THEN valid[k].currency ELSE <<"I", "N", "R">>,
         transaction_type |-> valid[k].transaction_type,
         description |-> OrNull(valid[k].description),
         party |-> OrNull(valid[k].party),
         bank_remarks |-> OrNull(valid[k].bank_remarks),
         account_id |-> FindId(lists.accounts, valid[k].account_name),
         category_id |-> FindId(lists.categories, valid[k].category_name),
         subcategory_id |-> NULL,
         tag_id |-> FindId(lists.tags, valid[k].tag_name),
         group_id |-> FindId(lists.groups, valid[k].group_name),
         transaction_mode |-> OrNull(valid[k].transaction_mode),
         transaction_nature |-> OrNull(valid[k].transaction_nature)]]

\* A row of the request body as a row of transactions
AsTransactionRow1(p) ==
    [user_id |-> p.user_id, transaction_date |-> p.transaction_date,
     amount |-> ToCents(p.amount), transaction_type |-> EnumLabel(p.transaction_type),
     account_id |-> p.account_id, category_id |-> p.category_id, subcategory_id |-> p.subcategory_id,
     tag_id |-> p.tag_id,
     group_id |-> p.group_id]

\* handleFileSelect with a file whose name ends in .csv, and the reader.onload
\* that follows it; a file is picked while the file input is empty
HandleFileSelect1(f) ==
    /\ isOpen
    /\ file = NoFile /\ closure.import < MaxImports
    /\ fileName' = f.name
    /\ file' = f
    /\ parsedData' = parseCSV1(CSVText(f))
    /\ newEntities' = detectNewEntities(parsedData')
    /\ UNCHANGED <<isOpen, isImporting, pc, importCompleted, existing, closure,
                   request_log>>

\* toggleEntity(index), index counted from 1
ToggleEntity(index) ==
    /\ isOpen
    /\ index \in 1..Len(newEntities)
    /\ newEntities' = [newEntities EXCEPT ![index].selected = ~@]
    /\ UNCHANGED <<isOpen, parsedData, fileName, isImporting, file, pc, importCompleted,
                   existing, closure, request_log>>

\* handleImport up to its first await: the function keeps the state of the
\* render it was made in.  The button is disabled without valid rows and while
\* an import runs.
HandleImport1 ==
    /\ isOpen
    /\ Len(validTransactions(parsedData)) # 0 /\ ~isImporting
    /\ closure.import < MaxImports
    /\ isImporting' = TRUE
    /\ closure' = [import |-> closure.import + 1, parsedData |-> parsedData,
                   newEntities |-> newEntities, existing |-> existing]
    /\ pc' = "importing"
    /\ UNCHANGED <<isOpen, parsedData, fileName, file, importCompleted, newEntities,
                   existing, request_log>>

\* The requests of the import that runs
Requested(table) ==
    \E k \in 1..Len(request_log) :
        request_log[k].import = closure.import /\ request_log[k].table = table

\* The types createNewEntities has yet to create entities of, in its order
Pending ==
    SelectSeq(EntityTypes,
              LAMBDA type : /\ OfType(selectedEntities(closure.newEntities), type) # <<>>
                            /\ ~Requested(TableOf(type)))

Logged(table, rows, result, data) ==
    Append(request_log, [import |-> closure.import, table |-> table, rows |-> rows,
                         error |-> result.error, data |-> data])

\* One insert of createNewEntities and what follows its answer: the rows that
\* came back are added to the state, an error ends the import.  A request can
\* fail on its way, and the database refuses what it cannot store.
CreateNewEntities(uid, lost) ==
    /\ pc = "importing"
    /\ Pending # <<>>
    /\ LET type == Head(Pending)
           toCreate == OfType(selectedEntities(closure.newEntities), type)
           body == [k \in 1..Len(toCreate) |-> EntityPayload(toCreate[k], uid)]
           result == IF lost THEN Rejected(DB)
                     ELSE Insert(DB, uid, TableOf(type),
                                 [k \in 1..Len(body) |-> AsEntityRow(type, body[k])])
           created == [k \in 1..Len(result.data) |->
                          [id |-> result.data[k].id, name |-> result.data[k].name]]
       IN /\ Commit(uid, "insert", TableOf(type), result)
          /\ request_log' = Logged(TableOf(type), body, result, created)
          /\ IF result.error
             THEN /\ pc' = "idle"
                  /\ isImporting' = FALSE
                  /\ UNCHANGED existing
             ELSE /\ existing' = [existing EXCEPT ![StateOf(type)] = @ \o created]
                  /\ UNCHANGED <<pc, isImporting>>
    /\ UNCHANGED <<isOpen, parsedData, fileName, file, importCompleted, newEntities,
                   closure, client_requests>>

\* The transactions insert of handleImport and what follows its answer
ImportTransactions(uid, lost) ==
    /\ pc = "importing"
    /\ Pending = <<>>
    /\ LET body == transactionsToInsert1(validTransactions(closure.parsedData),
                                         closure.existing, uid)
           result == IF lost \/ ~Storable(body) THEN Rejected(DB)
                     ELSE InsertTransactions(DB, uid,
                              [k \in 1..Len(body) |-> AsTransactionRow1(body[k])])
       IN /\ Commit(uid, "insert", "transactions", result)
          /\ request_log' = Logged("transactions", body, result, <<>>)
          /\ IF result.error
             THEN UNCHANGED <<isOpen, parsedData, fileName, newEntities, file,
                              importCompleted>>
             ELSE /\ isOpen' = FALSE
                  /\ parsedData' = <<>>
                  /\ fileName' = ""
                  /\ newEntities' = <<>>
                  /\ file' = NoFile
                  /\ importCompleted' = importCompleted + 1
    /\ isImporting' = FALSE
    /\ pc' = "idle"
    /\ UNCHANGED <<existing, closure, client_requests>>

\* The page has loaded and initialAccounts has the user's accounts.  The dialog
\* is mounted with the page, whose lists are empty until fetchData has answered,
\* or after it; its useState keeps the lists it was mounted with.
InitItems ==
    /\ InitDB
    /\ DialogClosed
    /\ csv = NoCSV
    /\ newEntities = <<>>
    /\ request_log = <<>>
    /\ \E uid \in PageUsers, names \in AccountSetups :
          /\ accounts = {("id" :> AccountIdPool[k]) @@ NewAccount(uid, names[k], 1, 1) :
                            k \in 1..Len(names)}
          /\ initialAccounts = [k \in 1..Len(names) |->
                                   [id |-> AccountIdPool[k], name |-> names[k]]]
    /\ \E loaded \in BOOLEAN :
          existing = [accounts |-> IF loaded THEN initialAccounts ELSE <<>>,
                      categories |-> <<>>, tags |-> <<>>, groups |-> <<>>]
    /\ closure = [import |-> 0, parsedData |-> <<>>, newEntities |-> <<>>,
                  existing |-> existing]

NextItems ==
    /\ \E uid \in PageUsers :
          \/ OpenDialog /\ UNCHANGED itemvars
          \/ CloseDialog /\ UNCHANGED itemvars
          \/ \E f \in ItemFiles : HandleFileSelect1(f) /\ UNCHANGED dbvars
          \/ \E index \in 1..Len(newEntities) : ToggleEntity(index) /\ UNCHANGED dbvars
          \/ HandleImport1 /\ UNCHANGED dbvars
          \/ \E lost \in BOOLEAN : CreateNewEntities(uid, lost)
          \/ \E lost \in BOOLEAN : ImportTransactions(uid, lost)
    /\ UNCHANGED <<unmatchedAccounts, insert_requests, initialAccounts, csv>>

SpecItems == InitItems /\ [][NextItems]_vars

-----------------------------------------------------------------------------
(* The import dialog that creates new items: what an Import sends *)

\* The requests of import n in a log
ImportLog(log, n) == SelectSeq(log, LAMBDA r : r.import = n)

\* The entities of a type whose checkbox was selected at the click on Import
Chosen(type) == SelectSeq(closure.newEntities, LAMBDA e : e.selected /\ e.type = type)

\* The column of a transactions row with the id of its entity of a type
IdColumn(type) ==
    CASE type = "account" -> "account_id"
      [] type = "category" -> "category_id"
      [] type = "tag" -> "tag_id"
      [] type = "group" -> "group_id"

EntityTables == {TableOf(type) : type \in SeqToSet(EntityTypes)}

TransactionsLinkTheItemsCreated ==
    [][Len(request_log') = Len(request_log) + 1 =>
         LET r == request_log'[Len(request_log')]
             before == ImportLog(request_log, r.import)
             valid == validTransactions(closure.parsedData)
         IN (r.table = "transactions" /\ ~r.error) =>
               \A j \in 1..Len(r.rows), type \in SeqToSet(EntityTypes) :
                   LET name == NameOf(valid[j], type)
                       created ==
                           {c \in UNION {SeqToSet(before[i].data) :
                                            i \in {i \in 1..Len(before) :
                                                      before[i].table = TableOf(type)}} :
                               name # undefined /\ toLowerCase(c.name) = toLowerCase(name)}
                   IN created # {} => r.rows[j][IdColumn(type)] \in Ids(created)]_vars

\* C11: after a file is selected, no entity listed under New Items to Create has
\* the name, ignoring case, of an entity of its type that the page has loaded,
\* and no two listed entities of a type have the same name ignoring case.
NewItemsDoNotExistYet ==
    /\ \A k \in 1..Len(newEntities) :
           newEntities[k].type = "account" =>
               \A j \in 1..Len(initialAccounts) :
                   toLowerCase(initialAccounts[j].name) # toLowerCase(newEntities[k].name)
    /\ \A k1, k2 \in 1..Len(newEntities) :
           (/\ newEntities[k1].type = newEntities[k2].type
            /\ toLowerCase(newEntities[k1].name) = toLowerCase(newEntities[k2].name))
               => k1 = k2

-----------------------------------------------------------------------------
(* Audit rows, categories, budgets and references under client requests *)

\* C12: no insert of a client into audit_logs succeeds: every audit_logs row is
\* one that audit_trigger_function wrote for a row change of the same request,
\* with that change's operation, table and row id.
AuditLogsAreWrittenByTriggersOnly ==
    \A i \in 1..Len(audit_logs) :
        \E j \in 1..Len(row_events) : row_events[j] = AuditKey(audit_logs[i])

SystemRows(rows) == {c \in rows : c.is_system = TRUE}

\* C13: a select of categories returns every system category to a caller with a
\* session and none to a caller without one, and a category that is not a system
\* category to its owner only; no request creates, changes or deletes a system
\* category or makes a category a system category.
SystemCategoriesAreReadOnlyAndForUsers ==
    [][/\ (last_request'.kind = "select" /\ last_request'.table = "categories") =>
              /\ last_request'.uid # NULL => SystemRows(categories) \subseteq returned'
              /\ last_request'.uid = NULL => returned' = {}
              /\ \A c \in returned' \ SystemRows(categories) :
                     c.user_id = last_request'.uid
       /\ SystemRows(categories') = SystemRows(categories)]_vars

\* A caller without a session has selected categories while a system category
\* and a category of a user are there
AnonymousSelectOfCategories ==
    /\ last_request = [uid |-> NULL, kind |-> "select", table |-> "categories",
                       error |-> FALSE]
    /\ SystemRows(categories) # {}
    /\ categories \ SystemRows(categories) # {}

\* C14: a select of subcategories returns a row to a user only if the user_id of
\* its category is that user; a subcategory of a system category is returned to
\* no one.
SubcategoriesAreReadThroughOwnCategoriesOnly ==
    [][(last_request'.kind = "select" /\ last_request'.table = "subcategories") =>
           \A x \in returned' :
               RowById(categories, x.category_id).user_id = last_request'.uid]_vars

\* The columns of transactions that reference a row of another table
ReferenceColumns == {"account_id", "category_id", "subcategory_id", "tag_id", "group_id"}

ReferencedTable(column) ==
    CASE column = "account_id" -> "accounts"
      [] column = "category_id" -> "categories"
      [] column = "subcategory_id" -> "subcategories"
      [] column = "tag_id" -> "tags"
      [] column = "group_id" -> "transaction_groups"

\* C16: after every request each account_id, category_id, subcategory_id, tag_id
\* and group_id of a transaction is null or the id of a row; a delete of an
\* account, category, subcategory, tag or group keeps every transaction, with
\* the references to deleted rows null and the others as they were; a delete of
\* a category leaves the subcategories and budgets of the categories that are left.
ReferencesOfTransactionsExist ==
    [][/\ \A column \in ReferenceColumns : \A t \in transactions' :
              t[column] = NULL \/ t[column] \in Ids(Table(ReferencedTable(column)))'
       /\ (/\ last_request'.kind = "delete" /\ ~last_request'.error
           /\ last_request'.table \in {ReferencedTable(c) : c \in ReferenceColumns}) =>
              /\ Ids(transactions') = Ids(transactions)
              /\ \A column \in ReferenceColumns : \A t \in transactions :
                     RowById(transactions', t.id)[column]
                         = IF t[column] \in Ids(Table(ReferencedTable(column)))'
                           THEN t[column] ELSE NULL
              /\ last_request'.table = "categories" =>
                     /\ subcategories'
                            = {x \in subcategories : x.category_id \in Ids(categories')}
                     /\ budgets' = {b \in budgets : b.category_id \in Ids(categories')}]_vars

\* A category was deleted that had a subcategory and a transaction referring to
\* it or to the subcategory
DeletedCategoryWithSubcategoryAndTransaction ==
    /\ last_request.kind = "delete" /\ last_request.table = "categories"
    /\ ~last_request.error
    /\ \E i \in 1..Len(row_events) :
           row_events[i].op = "DELETE" /\ row_events[i].table = "subcategories"
    /\ \E i \in 1..Len(row_events) :
           row_events[i].op = "UPDATE" /\ row_events[i].table = "transactions"
    /\ transactions # {}

-----------------------------------------------------------------------------
(* The budgets page *)

MaxBudgets == 2

\* UNIQUE(user_id, category_id, month, year): the columns of onConflict
BudgetKey(r) == <<r.user_id, r.category_id, r.month, r.year>>

\* The database as the next request finds it
AsFound(db) == [db EXCEPT !.audit_logs = <<>>, !.row_events = <<>>, !.raised = FALSE]

\* supabase.from('budgets').insert(row) with a row that has the key of a row
\* there: the unique constraint refuses it
InsertOnly(db, uid, table, row) == Insert(db, uid, table, <<row>>)

\* supabase.from('budgets').upsert(row, {onConflict: 'user_id,category_id,month,year'}):
\* INSERT ... ON CONFLICT (...) DO UPDATE SET the columns sent.  The INSERT
\* policy is checked for the row sent, whichever way the statement goes.
Upsert(db, uid, table, row) ==
    LET conflicting == {r \in db[table] : BudgetKey(r) = BudgetKey(row)}
    IN IF ~PolicyAdmits(db, table, uid, row) THEN Rejected(db)
       ELSE IF conflicting = {} THEN Insert(db, uid, table, <<row>>)
       ELSE Update(db, uid, table, (CHOOSE r \in conflicting : TRUE).id, row)

\* What the form holds at submit: a category of the select, or none chosen
BudgetForms ==
    {[category_id |-> c, amount |-> a] : c \in CategoryIds \cup {""}, a \in Amounts}

\* Budgets.handleSubmit
BudgetsHandleSubmit(uid, formData) ==
    LET row == NewBudget(uid, formData.category_id, formData.amount)
    IN /\ (\E r \in budgets : BudgetKey(r) = BudgetKey(row))
              \/ Cardinality(budgets) < MaxBudgets
       /\ Commit(uid, "upsert", "budgets", Upsert(DB, uid, "budgets", row))

\* The requests of the API for budgets and their categories
BudgetRequests(uid) ==
    \/ \E row \in ClientRows("budgets") :
           /\ Cardinality(budgets) < MaxBudgets
           /\ Commit(uid, "insert", "budgets", Insert(DB, uid, "budgets", <<row>>))
    \/ \E id \in Ids(budgets), patch \in ClientPatches("budgets") :
           ClientUpdate(uid, "budgets", id, patch)
    \/ \E id \in Ids(budgets) : ClientDelete(uid, "budgets", id)
    \/ \E row \in ClientRows("categories") : ClientInsert(uid, "categories", row)
    \/ \E id \in ClientIds("categories") : ClientDelete(uid, "categories", id)

NextBudgets ==
    /\ client_requests < MaxRequests
    /\ client_requests' = client_requests + 1
    /\ \E uid \in UserIds :
          \/ \E formData \in BudgetForms : BudgetsHandleSubmit(uid, formData)
          \/ BudgetRequests(uid)
    /\ UNCHANGED <<dialogvars, itemvars>>

SpecBudgets == InitRLS /\ [][NextBudgets]_vars

\* C15: no two budgets rows have the same user_id, category_id, month and year;
\* a budget saved for a category that has one in the month replaces its amount
\* and adds no row; a budget saved a second time leaves the table as the first
\* save left it.
BudgetsAreUniqueAndSavingIsIdempotent ==
    /\ UniqueBudgets(DB)
    /\ \A uid \in UserIds, formData \in BudgetForms :
           LET row == NewBudget(uid, formData.category_id, formData.amount)
               had == {r \in budgets : BudgetKey(r) = BudgetKey(row)}
               once == Upsert(DB, uid, "budgets", row)
               twice == Upsert(AsFound(once.db), uid, "budgets", row)
           IN ~once.error =>
                 /\ \E r \in once.db.budgets :
                        BudgetKey(r) = BudgetKey(row) /\ r.amount = row.amount
                 /\ had # {} => Ids(once.db.budgets) = Ids(budgets)
                 /\ budgets \ had \subseteq once.db.budgets
                 /\ UniqueBudgets(once.db)
                 /\ ~twice.error
                 /\ twice.db.budgets = once.db.budgets

\* A budget was saved for a category that had one with another amount: the
\* request updated the row
SavedBudgetOverExistingOne ==
    /\ last_request.kind = "upsert" /\ ~last_request.error
    /\ row_events = <<[op |-> "UPDATE", table |-> "budgets", id |-> BudgetIdPool[1]]>>
    /\ audit_logs[1].old_data # audit_logs[1].new_data
    /\ Cardinality(budgets) = 2

-----------------------------------------------------------------------------
(* Reading a file: the loops of splitCSVRows and parseCSVLine *)

MaxContentLength == 5

\* The characters of the contents read: a letter, the delimiter, the quotation
\* mark, the line breaks and a blank
ContentCharacters == {"a", ",", "\"", "\n", "\r", " "}

CSVContents == UNION {[1..n -> ContentCharacters] : n \in 0..MaxContentLength}

\* (char === '\n' || char === '\r') && !inQuotes, with the quotes ignored
EndsRowWhateverTheQuotes(char, inQuotes) == char \in {"\n", "\r"}

\* (char === '\n' || char === '\r') && !inQuotes
EndsRow(char, inQuotes) == char \in {"\n", "\r"} /\ ~inQuotes

\* if (currentRow.trim()) rows.push(currentRow)
PushRow(rows, currentRow) == IF trim(currentRow) # <<>> THEN Append(rows, currentRow) ELSE rows

\* One pass of the for loop of splitCSVRows; i counts from 1
SplitStep ==
    /\ csv.phase = "split"
    /\ csv.i <= Len(csv.content)
    /\ LET char == csv.content[csv.i]
       IN csv' =
            IF char = "\""
            THEN [csv EXCEPT !.inQuotes = ~@, !.currentRow = Append(@, char), !.i = @ + 1]
            ELSE IF EndsRow(char, csv.inQuotes)
            THEN [csv EXCEPT !.i = IF /\ char = "\r"
                                      /\ csv.i + 1 <= Len(csv.content)
                                      /\ csv.content[csv.i + 1] = "\n"
                                   THEN @ + 2 ELSE @ + 1,
                             !.rows = PushRow(@, csv.currentRow),
                             !.currentRow = <<>>]
            ELSE [csv EXCEPT !.currentRow = Append(@, char), !.i = @ + 1]
    /\ UNCHANGED <<dbvars, dialogvars, newEntities, existing, closure, request_log>>

\* After the loop: the last row, and return rows
SplitReturn ==
    /\ csv.phase = "split"
    /\ csv.i > Len(csv.content)
    /\ csv' = [csv EXCEPT !.rows = PushRow(@, csv.currentRow), !.phase = "rows"]
    /\ UNCHANGED <<dbvars, dialogvars, newEntities, existing, closure, request_log>>

\* parseCSVLine(rows[k]) is called
ParseLine(k) ==
    /\ csv.phase = "rows"
    /\ csv' = [csv EXCEPT !.phase = "line", !.line = csv.rows[k], !.i = 1,
                          !.inQuotes = FALSE, !.result = <<>>, !.current = <<>>]
    /\ UNCHANGED <<dbvars, dialogvars, newEntities, existing, closure, request_log>>

\* One pass of the for loop of parseCSVLine
LineStep(delimiter) ==
    /\ csv.phase = "line"
    /\ csv.i <= Len(csv.line)
    /\ LET char == csv.line[csv.i]
       IN csv' =
            IF char = "\""
            THEN [csv EXCEPT !.inQuotes = ~@, !.i = @ + 1]
            ELSE IF char = delimiter /\ ~csv.inQuotes
            THEN [csv EXCEPT !.result = Append(@, csv.current), !.current = <<>>,
                             !.i = @ + 1]
            ELSE [csv EXCEPT !.current = Append(@, char), !.i = @ + 1]
    /\ UNCHANGED <<dbvars, dialogvars, newEntities, existing, closure, request_log>>

\* After the loop: result.push(current), and return result
LineReturn ==
    /\ csv.phase = "line"
    /\ csv.i > Len(csv.line)
    /\ csv' = [csv EXCEPT !.result = Append(@, csv.current), !.phase = "fields"]
    /\ UNCHANGED <<dbvars, dialogvars, newEntities, existing, closure, request_log>>

\* splitCSVRows is called with a content
InitCSV ==
    /\ accounts = {}
    /\ InitDB
    /\ DialogClosed
    /\ initialAccounts = <<>>
    /\ newEntities = <<>>
    /\ existing = [accounts |-> <<>>, categories |-> <<>>, tags |-> <<>>, groups |-> <<>>]
    /\ closure = [import |-> 0, parsedData |-> <<>>, newEntities |-> <<>>,
                  existing |-> existing]
    /\ request_log = <<>>
    /\ enum_literal = "raises"
    /\ \E content \in CSVContents :
          csv = [NoCSV EXCEPT !.phase = "split", !.content = content, !.i = 1]

NextCSV ==
    \/ SplitStep
    \/ SplitReturn
    \/ \E k \in 1..Len(csv.rows) : ParseLine(k)
    \/ LineStep(",")
    \/ LineReturn

SpecCSV == InitCSV /\ [][NextCSV]_vars

\* The positions of s outside quotes that hold one of chars: an even number of
\* quotation marks comes before them
Unquoted(s, chars) ==
    {i \in 1..Len(s) : s[i] \in chars /\ Cardinality({j \in 1..(i - 1) : s[j] = "\""}) % 2 = 0}

\* The parts of s between the positions of cuts, in order
Between(s, cuts) ==
    LET at == Ascending(cuts \cup {0, Len(s) + 1})
    IN [k \in 1..(Len(at) - 1) |-> SubSeq(s, at[k] + 1, at[k + 1] - 1)]

\* C18: the rows splitCSVRows returns are the parts of the content between the
\* line breaks outside quotes, without the parts that are empty or blank (so a
\* line break inside quotes ends no row, one outside always does, and CR LF adds
\* no row); the fields parseCSVLine returns are the parts of the row between the
\* delimiters outside quotes, without the quotation marks, one more than these
\* delimiters.
RowsAndFieldsEndOutsideQuotesOnly ==
    /\ csv.phase \in {"rows", "line", "fields"} =>
           csv.rows = SelectSeq(Between(csv.content, Unquoted(csv.content, {"\n", "\r"})),
                                LAMBDA row : trim(row) # <<>>)
    /\ csv.phase = "fields" =>
           /\ Len(csv.result) = 1 + Cardinality(Unquoted(csv.line, {","}))
           /\ csv.result = [k \in 1..Len(csv.result) |->
                              Without(Between(csv.line, Unquoted(csv.line, {","}))[k],
                                      {"\""})]

\* A row with a line break inside quotes and a delimiter outside has been split
\* into its fields
ParsedRowWithQuotedLineBreak ==
    /\ csv.phase = "fields"
    /\ \E i \in 1..Len(csv.line) :
           csv.line[i] \in {"\n", "\r"} /\ i \notin Unquoted(csv.line, {"\n", "\r"})
    /\ Len(csv.result) = 2

-----------------------------------------------------------------------------
(* The error summary of the transaction import *)

\* t.errors.forEach(error => { if (!details[error]) details[error] = {count: 0,
\* transactions: []}; details[error].count += 1; details[error].transactions.push(t) }).
\* details is the sequence of the object's entries in the order of insertion.
RECURSIVE AddErrors(_, _, _)
AddErrors(details, t, errors) ==
    IF errors = <<>> THEN details
    ELSE LET error == Head(errors)
             started == IF \E k \in 1..Len(details) : details[k].error = error
                        THEN details
                        ELSE Append(details,
                                    [error |-> error, count |-> 0, transactions |-> <<>>])
             at == CHOOSE k \in 1..Len(started) : started[k].error = error
         IN AddErrors([started EXCEPT ![at].count = @ + 1,
                                      ![at].transactions = Append(@, t)],
                      t, Tail(errors))

\* parsedData.forEach((t) => { if (!t.isValid) { ... } })
RECURSIVE Aggregate(_, _)
Aggregate(details, parsed) ==
    IF parsed = <<>> THEN details
    ELSE Aggregate(IF ~Head(parsed).isValid
                   THEN AddErrors(details, Head(parsed), Head(parsed).errors)
                   ELSE details,
                   Tail(parsed))

errorDetails == Aggregate(<<>>, parsedData)

\* Object.entries(errorDetails) as it is, unsorted
InsertionOrder(entries) == entries

\* entries.sort((a, b) => b[1].count - a[1].count): a stable sort
RECURSIVE SortByCount(_)
SortByCount(entries) ==
    IF entries = <<>> THEN <<>>
    ELSE LET sorted == SortByCount(SubSeq(entries, 1, Len(entries) - 1))
             last == entries[Len(entries)]
         IN SelectSeq(sorted, LAMBDA e : e.count >= last.count)
                \o <<last>>
                \o SelectSeq(sorted, LAMBDA e : e.count < last.count)

sortedErrors == SortByCount(errorDetails)

\* The messages of the invalid rows of the file
MessagesOfInvalidRows ==
    UNION {SeqToSet(parsedData[k].errors) :
              k \in {j \in 1..Len(parsedData) : ~parsedData[j].isValid}}

\* C19: the summary has one entry for each message of an invalid row; the
\* entry's list is the invalid rows whose errors have the message, in file
\* order, and its count their number; the entries come in non-increasing order
\* of count; no valid row is in a list.
ErrorSummaryCountsInvalidRowsByMessage ==
    /\ {sortedErrors[k].error : k \in 1..Len(sortedErrors)} = MessagesOfInvalidRows
    /\ Len(sortedErrors) = Cardinality(MessagesOfInvalidRows)
    /\ \A k \in 1..Len(sortedErrors) :
           /\ sortedErrors[k].transactions
                  = SelectSeq(parsedData,
                              LAMBDA t : ~t.isValid
                                         /\ includes(t.errors, sortedErrors[k].error))
           /\ sortedErrors[k].count = Len(sortedErrors[k].transactions)
           /\ \A j \in 1..Len(sortedErrors[k].transactions) :
                  ~sortedErrors[k].transactions[j].isValid
    /\ \A k \in 1..(Len(sortedErrors) - 1) :
           sortedErrors[k].count >= sortedErrors[k + 1].count

\* A file with a valid row and invalid rows is selected; the message met first
\* has fewer rows than a message met later
SummaryOfFileWithSharedErrors ==
    /\ validCount > 0
    /\ Len(errorDetails) >= 2
    /\ errorDetails[1].count < sortedErrors[1].count
    /\ sortedErrors[1].count = 2

=============================================================================
